---------------------------- MODULE Spec2Model ----------------------------
(***************************************************************************)
(* A model of io_scene_3ds/export_3ds.py: the chunk tree and its primitive *)
(* field classes, the name sanitizer, the vertex/UV deduplication and the  *)
(* control flow of save().                                                 *)
(*                                                                         *)
(* A field is its class and its value.  The items of an array are all of   *)
(* one class in the program, so an array is its item class, its number of  *)
(* items and its stored size attribute; the numbers in floats, points and  *)
(* colours, which no size, count or order depends on, are carried as 0.    *)
(***************************************************************************)
EXTENDS Integers, Sequences, FiniteSets, TLC

VARIABLES
    chunks,     \* the _3ds_chunk objects, by creation order: ID, size, variables, subchunks
    fresh,      \* history: chunks whose stored size was computed after their last mutation
    file,       \* the sink of the last call: the packed segments a write() put into it
    ret,        \* the last call on the chunk API and what it returned
    name_unique,    \* module level list of the identifiers handed out (str)
    name_mapping,   \* module level dict: source name -> identifier (bytes)
    name_ret,       \* what the last sane_name call returned
    returned,       \* history: every <<source name, identifier>> sane_name returned
    verts,          \* remove_face_uv: the mesh vertices, each its position (co)
    tri_list,       \* remove_face_uv: the tri_wrapper objects, rewritten in place
    tri_in,         \* history: tri_list as it was handed to remove_face_uv
    uv_out,         \* remove_face_uv: the vert_array and uv_array returned
    uv_pc,          \* "input" until remove_face_uv has been called, then "done"
    mesh_arg,       \* make_mesh_chunk: the mesh it is given
    mesh_ret,       \* make_mesh_chunk: the chunk it returned
    scene,          \* save(): the objects of the scene, the world and write_keyframe
    pc,             \* save(): the statement it is at
    loc,            \* save(): its local variables
    reports,        \* save(): the operator.report calls made
    result,         \* save(): the value returned
    track_args,     \* a track builder: the call made, the animation data it is given
    track_ret,      \* a track builder: the chunk it returned
    track_err,      \* a track builder: the expression that raised, "" if none did
    build_args,     \* another builder or a field's write: the call made
    build_ret       \* another builder or a field's write: what it returned or wrote

chunkVars == <<chunks, fresh, file, ret>>

nameVars == <<name_unique, name_mapping, name_ret, returned>>

uvVars == <<verts, tri_list, tri_in, uv_out, uv_pc, mesh_arg, mesh_ret>>

saveVars == <<scene, pc, loc, reports, result>>

trackVars == <<track_args, track_ret, track_err>>

buildVars == <<build_args, build_ret>>

vars == <<chunks, fresh, file, ret, name_unique, name_mapping, name_ret, returned,
          verts, tri_list, tri_in, uv_out, uv_pc, mesh_arg, mesh_ret,
          scene, pc, loc, reports, result,
          track_args, track_ret, track_err, build_args, build_ret>>

-----------------------------------------------------------------------------
(* Bounds of the model. *)

\* Chunks plus fields a caller of the chunk API makes.
MaxNodes == 5

\* Triangles of a mesh handed to remove_face_uv.
MaxTris == 2

-----------------------------------------------------------------------------
(* Chunk tags and size defines. *)

PRIMARY == 19789

OBJECT == 16384

SZ_SHORT == 2

SZ_INT == 4

SZ_FLOAT == 4

ArrayLimit == 65535

NameLimit == 12

RECURSIVE SumSeq(_)
SumSeq(s) == IF s = <<>> THEN 0 ELSE Head(s) + SumSeq(Tail(s))

RECURSIVE FlattenSeq(_)
FlattenSeq(ss) == IF ss = <<>> THEN <<>> ELSE Head(ss) \o FlattenSeq(Tail(ss))

Range(s) == {s[i] : i \in DOMAIN s}

Min(a, b) == IF a <= b THEN a ELSE b

Max(a, b) == IF a >= b THEN a ELSE b

-----------------------------------------------------------------------------
(* sane_name.  A str or bytes value is the sequence of its code points.    *)

\* s.encode("ASCII", "replace"): a '?' for every character outside ASCII.
AsciiReplace(s) == [i \in 1..Len(s) |-> IF s[i] < 128 THEN s[i] ELSE 63]

\* s[:12]
Truncate(s) == SubSeq(s, 1, Min(Len(s), NameLimit))

RECURSIVE Digits(_)
Digits(i) == IF i < 10 THEN <<48 + i>> ELSE Digits(i \div 10) \o <<48 + (i % 10)>>

\* '.%.3d' % i: a dot and i in decimal, zero padded to three digits.
Suffix(i) ==
    LET d == Digits(i)
    IN  <<46>> \o [k \in 1..(3 - Min(3, Len(d))) |-> 48] \o d

\* A loop that takes the truncated name as it is.
UniqueNameUnchecked(new_name_clean, new_name, i, unique) == new_name_clean

\* while new_name in name_unique: new_name = new_name_clean + '.%.3d' % i; i += 1
RECURSIVE UniqueName(_, _, _, _)
UniqueName(new_name_clean, new_name, i, unique) ==
    IF new_name \in Range(unique)
    THEN UniqueName(new_name_clean, new_name_clean \o Suffix(i), i + 1, unique)
    ELSE new_name

\* A sane_name without the lookup in name_mapping of its first lines.
SaneNameNoLookup(name, unique, mapping) ==
    LET new_name_clean == Truncate(AsciiReplace(name))
        new_name == UniqueName(new_name_clean, new_name_clean, 0, unique)
    IN  [unique  |-> Append(unique, new_name),
         mapping |-> (name :> AsciiReplace(new_name)) @@ mapping,
         result  |-> AsciiReplace(new_name)]

\* sane_name(name): the new name tables and the value returned.
SaneName(name, unique, mapping) ==
    IF name \in DOMAIN mapping
    THEN [unique |-> unique, mapping |-> mapping, result |-> mapping[name]]
    ELSE LET new_name_clean == Truncate(AsciiReplace(name))
             new_name == UniqueName(new_name_clean, new_name_clean, 0, unique)
         IN  [unique  |-> Append(unique, new_name),
              mapping |-> mapping @@ (name :> AsciiReplace(new_name)),
              result  |-> AsciiReplace(new_name)]

-----------------------------------------------------------------------------
(* remove_face_uv.  Vertex indices count from 0 as in the source; a dict   *)
(* is the sequence of its entries in insertion order.                      *)

\* tri_wrapper.__init__
TriWrapper(vindex, faceuvs) == [vertex_index |-> vindex, faceuvs |-> faceuvs, offset |-> <<0, 0, 0>>]

\* A lookup that never finds the key.
UvLookupMiss(context_uv_vert, uvkey) == <<>>

\* context_uv_vert.get(uvkey): the entry in a one element sequence, or
\* nothing (None).
UvLookup(context_uv_vert, uvkey) ==
    SelectSeq(context_uv_vert, LAMBDA e : e.key = uvkey)

\* context_uv_vert[uvkey] = value: in place for a key of the dict, else last.
DictSet(context_uv_vert, uvkey, value) ==
    IF \E j \in DOMAIN context_uv_vert : context_uv_vert[j].key = uvkey
    THEN [j \in DOMAIN context_uv_vert |->
            IF context_uv_vert[j].key = uvkey THEN value ELSE context_uv_vert[j]]
    ELSE Append(context_uv_vert, value)

\* The first loop, from corner i of triangle t on: every corner's uv enters
\* the dict of its vertex and the corner stores the entry's offset.
RECURSIVE CollectUniqueUVs(_, _, _, _)
CollectUniqueUVs(unique_uvs, tris, t, i) ==
    IF t > Len(tris) THEN [unique_uvs |-> unique_uvs, tris |-> tris]
    ELSE LET v       == tris[t].vertex_index[i]
             context == unique_uvs[v + 1]
             uvkey   == tris[t].faceuvs[i]
             found   == UvLookup(context, uvkey)
             entry   == IF found = <<>>
                        THEN [key |-> uvkey, offset |-> Len(context), uv |-> uvkey]
                        ELSE found[1]
             uu2     == IF found = <<>>
                        THEN [unique_uvs EXCEPT ![v + 1] = DictSet(context, uvkey, entry)]
                        ELSE unique_uvs
             tris2   == [tris EXCEPT ![t].offset[i] = entry.offset]
         IN  IF i < 3 THEN CollectUniqueUVs(uu2, tris2, t, i + 1)
                      ELSE CollectUniqueUVs(uu2, tris2, t + 1, 1)

\* A vertex with no uv still put once into the vertex array.
DuplicatesAtLeastOne(context_uv_vert, pt) == [k \in 1..Max(1, Len(context_uv_vert)) |-> pt]

\* for ii, uv_3ds in unique_uvs[i].values(): vert_array.add(pt)
Duplicates(context_uv_vert, pt) == [k \in 1..Len(context_uv_vert) |-> pt]

\* uvmap = [None] * len(...); uvmap[ii] = uv_3ds: the uvs by stored offset
\* (<<>> stands for a None left in the list).
UvMap(context_uv_vert) ==
    [k \in 1..Len(context_uv_vert) |->
        LET at == SelectSeq(context_uv_vert, LAMBDA e : e.offset = k - 1)
        IN  IF at = <<>> THEN <<>> ELSE at[Len(at)].uv]

\* An index list that is filled after vert_index has moved on.
RECURSIVE IndexListLate(_, _)
IndexListLate(unique_uvs, i) ==
    IF i = 0 THEN 0 ELSE IndexListLate(unique_uvs, i - 1) + Len(unique_uvs[i])

\* index_list[i - 1]: vert_index when the loop reaches vertex i - 1.
RECURSIVE IndexList(_, _)
IndexList(unique_uvs, i) ==
    IF i = 1 THEN 0 ELSE IndexList(unique_uvs, i - 1) + Len(unique_uvs[i - 1])

\* The second loop: the vertex array and the uv array.
RECURSIVE DuplicateVerts(_, _, _)
DuplicateVerts(vs, unique_uvs, i) ==
    IF i > Len(vs) THEN [vert_array |-> <<>>, uv_array |-> <<>>]
    ELSE LET rest == DuplicateVerts(vs, unique_uvs, i + 1)
         IN  [vert_array |-> Duplicates(unique_uvs[i], vs[i]) \o rest.vert_array,
              uv_array   |-> UvMap(unique_uvs[i]) \o rest.uv_array]

\* A third loop that leaves index_list out.
RewriteTrisLocal(tris, unique_uvs) ==
    [t \in DOMAIN tris |-> [tris[t] EXCEPT !.vertex_index = tris[t].offset]]

\* The third loop: tri.offset[i] += index_list[tri.vertex_index[i]], and the
\* offsets become the vertex indices.
RewriteTris(tris, unique_uvs) ==
    [t \in DOMAIN tris |->
        LET off == [i \in 1..3 |->
                      tris[t].offset[i] + IndexList(unique_uvs, tris[t].vertex_index[i] + 1)]
        IN  [tris[t] EXCEPT !.offset = off, !.vertex_index = off]]

\* remove_face_uv(verts, tri_list)
RemoveFaceUV(vs, tris) ==
    LET first  == CollectUniqueUVs([i \in DOMAIN vs |-> <<>>], tris, 1, 1)
        second == DuplicateVerts(vs, first.unique_uvs, 1)
    IN  [vert_array |-> second.vert_array,
         uv_array   |-> second.uv_array,
         tri_list   |-> RewriteTris(first.tris, first.unique_uvs)]

-----------------------------------------------------------------------------
(* Primitive field classes.  A field is [kind, value, n, item, size]: n is  *)
(* the number of items of an array, item the class of its items, size its  *)
(* stored size attribute.                                                  *)

PrimV(kind, val) == [kind |-> kind, value |-> val, n |-> 0, item |-> "", size |-> 0]

Prim(kind) == PrimV(kind, <<>>)

\* _3ds_string(val): val is a bytes value.
String3ds(val) == PrimV("string", val)

NoValue == Prim("None")

\* A string's get_size() that forgets the terminating zero.
PrimGetSizeNoTerminator(f) ==
    CASE f.kind = "string" -> Len(f.value)
      [] f.kind = "array"  -> f.size
      [] OTHER             -> SZ_SHORT

\* get_size() of each primitive class.
PrimGetSize(f) ==
    CASE f.kind = "ushort"      -> SZ_SHORT
      [] f.kind = "uint"        -> SZ_INT
      [] f.kind = "float"       -> SZ_FLOAT
      [] f.kind = "string"      -> Len(f.value) + 1
      [] f.kind = "point_3d"    -> 3 * SZ_FLOAT
      [] f.kind = "point_4d"    -> 4 * SZ_FLOAT
      [] f.kind = "point_uv"    -> 2 * SZ_FLOAT
      [] f.kind = "float_color" -> 3 * SZ_FLOAT
      [] f.kind = "rgb_color"   -> 3
      [] f.kind = "face"        -> 4 * SZ_SHORT
      [] f.kind = "array"       -> f.size

\* _3ds_array(): no items, the size of the count prefix.
ArrayNew == [kind |-> "array", value |-> <<>>, n |-> 0, item |-> "", size |-> SZ_SHORT]

\* _3ds_array.add, called k times with items of one class.
ArrayAdd(a, item, k) ==
    IF k = 0 THEN a
    ELSE [a EXCEPT !.n = @ + k, !.item = item.kind, !.size = @ + k * PrimGetSize(item)]

\* A validate() that is off by one.
ArrayValidateStrict(a) == a.n < ArrayLimit

\* _3ds_array.validate
ArrayValidate(a) == a.n <= ArrayLimit

\* _3ds_named_variable.get_size
VarGetSize(f) == IF f.kind = "None" THEN 0 ELSE PrimGetSize(f)

\* struct.calcsize of one format character.
StructSize(code) ==
    CASE code = "H" -> 2
      [] code = "I" -> 4
      [] code = "f" -> 4
      [] code = "B" -> 1
      [] code = "s" -> 1

\* The number of bytes struct.pack('<%d%s' % (count, code), ...) returns.
PackSize(count, code) == count * StructSize(code)

\* The bytes the write() of each primitive class hands to file.write.
PrimWriteBytes(f) ==
    CASE f.kind = "ushort"      -> PackSize(1, "H")
      [] f.kind = "uint"        -> PackSize(1, "I")
      [] f.kind = "float"       -> PackSize(1, "f")
      [] f.kind = "string"      -> PackSize(Len(f.value) + 1, "s")
      [] f.kind = "point_3d"    -> PackSize(3, "f")
      [] f.kind = "point_4d"    -> PackSize(4, "f")
      [] f.kind = "point_uv"    -> PackSize(2, "f")
      [] f.kind = "float_color" -> PackSize(3, "f")
      [] f.kind = "rgb_color"   -> PackSize(3, "B")
      [] f.kind = "face"        -> PackSize(4, "H")

\* _3ds_array.write: the count as a ushort, then every item.
ArrayWriteBytes(a) == PackSize(1, "H") + a.n * (IF a.n = 0 THEN 0 ELSE PrimWriteBytes(Prim(a.item)))

\* struct.pack('<H', len(values)) raises struct.error past 65535.
ArrayWriteFails(a) == a.n > 65535

\* _3ds_named_variable.write
VarWriteBytes(f) ==
    CASE f.kind = "None"  -> 0
      [] f.kind = "array" -> ArrayWriteBytes(f)
      [] OTHER            -> PrimWriteBytes(f)

-----------------------------------------------------------------------------
(* The chunk class.  A chunk is a record; `store` is the sequence of all   *)
(* chunks made so far and a chunk is referred to by its index in it.       *)

\* _3ds_chunk.__init__
ChunkNew(chunk_id) == [ID |-> chunk_id, size |-> 0, variables |-> <<>>, subchunks |-> <<>>]

\* _3ds_chunk.add_variable
ChunkAddVariable(store, c, var) ==
    [store EXCEPT ![c].variables = Append(@, var)]

\* An add_subchunk that puts the new child before the others.
ChunkAddSubchunkFront(store, c, chunk) ==
    [store EXCEPT ![c].subchunks = <<chunk>> \o @]

\* _3ds_chunk.add_subchunk
ChunkAddSubchunk(store, c, chunk) ==
    [store EXCEPT ![c].subchunks = Append(@, chunk)]

\* The chunks under c, c included.
RECURSIVE Subtree(_, _)
Subtree(store, c) ==
    {c} \cup UNION {Subtree(store, store[c].subchunks[i]) : i \in DOMAIN store[c].subchunks}

\* A get_size() that leaves the subchunks out.
ChunkSizeValueNoSubchunks(store, c) ==
    SZ_SHORT + SZ_INT
    + SumSeq([i \in DOMAIN store[c].variables |-> VarGetSize(store[c].variables[i])])

\* The value get_size() computes for c (tmpsize).
RECURSIVE ChunkSizeValue(_, _)
ChunkSizeValue(store, c) ==
    SZ_SHORT + SZ_INT
    + SumSeq([i \in DOMAIN store[c].variables |-> VarGetSize(store[c].variables[i])])
    + SumSeq([i \in DOMAIN store[c].subchunks |-> ChunkSizeValue(store, store[c].subchunks[i])])

\* A get_size that starts tmpsize from the size stored by the call before.
ChunkGetSizeAccumulating(store, c) ==
    [k \in DOMAIN store |->
        IF k \in Subtree(store, c)
        THEN [store[k] EXCEPT !.size = @ + ChunkSizeValue(store, k)]
        ELSE store[k]]

\* _3ds_chunk.get_size: every chunk under c stores its own tmpsize.
ChunkGetSize(store, c) ==
    [k \in DOMAIN store |->
        IF k \in Subtree(store, c)
        THEN [store[k] EXCEPT !.size = ChunkSizeValue(store, k)]
        ELSE store[k]]

\* A validate() that looks at the variables of the chunk alone.
ChunkValidateShallow(store, c) ==
    \A i \in DOMAIN store[c].variables :
        store[c].variables[i].kind = "array" => ArrayValidate(store[c].variables[i])

\* _3ds_chunk.validate
RECURSIVE ChunkValidate(_, _)
ChunkValidate(store, c) ==
    /\ \A i \in DOMAIN store[c].variables :
          store[c].variables[i].kind = "array" => ArrayValidate(store[c].variables[i])
    /\ \A i \in DOMAIN store[c].subchunks : ChunkValidate(store, store[c].subchunks[i])

\* One file.write call: which chunk made it, for which part, the value of a
\* header part, the number of bytes, and whether struct.pack raised instead.
Segment(c, part, idx, value, bytes, fails) ==
    [chunk |-> c, part |-> part, idx |-> idx, value |-> value, bytes |-> bytes, fails |-> fails]

RECURSIVE ChunkWrite(_, _)

\* A write that puts the variables of a chunk after its subchunks.
ChunkWriteFieldsLast(store, c) ==
    <<Segment(c, "ID", 0, store[c].ID, PackSize(1, "H"), FALSE),
      Segment(c, "size", 0, store[c].size, PackSize(1, "I"), FALSE)>>
    \o FlattenSeq([i \in DOMAIN store[c].subchunks |-> ChunkWrite(store, store[c].subchunks[i])])
    \o [i \in DOMAIN store[c].variables |->
          Segment(c, "variable", i, 0, VarWriteBytes(store[c].variables[i]),
                  store[c].variables[i].kind = "array" /\ ArrayWriteFails(store[c].variables[i]))]

\* _3ds_chunk.write: ID, size, the variables, the subchunks.
ChunkWrite(store, c) ==
    <<Segment(c, "ID", 0, store[c].ID, PackSize(1, "H"), FALSE),
      Segment(c, "size", 0, store[c].size, PackSize(1, "I"), FALSE)>>
    \o [i \in DOMAIN store[c].variables |->
          LET f == store[c].variables[i]
          IN  Segment(c, "variable", i, 0, VarWriteBytes(f),
                      f.kind = "array" /\ ArrayWriteFails(f))]
    \o FlattenSeq([i \in DOMAIN store[c].subchunks |-> ChunkWrite(store, store[c].subchunks[i])])

\* What reaches the sink: everything before the first failing pack.
UntilFailure(segs) ==
    LET failing == {i \in DOMAIN segs : segs[i].fails}
    IN  IF failing = {} THEN segs
        ELSE SubSeq(segs, 1, (CHOOSE i \in failing : \A j \in failing : i <= j) - 1)

-----------------------------------------------------------------------------
(* The chunk API driven by an arbitrary caller. *)

ChunkTags == {PRIMARY, OBJECT}

\* The field values a caller hands to add_variable.
FieldPool ==
    { String3ds(<<66>>), NoValue,
      ArrayAdd(ArrayNew, Prim("point_uv"), ArrayLimit),
      ArrayAdd(ArrayNew, Prim("ushort"), ArrayLimit + 1) }

Call(op, c, value) == [op |-> op, chunk |-> c, value |-> value]

Roots(store) ==
    {c \in DOMAIN store : \A p \in DOMAIN store : \A i \in DOMAIN store[p].subchunks :
                              store[p].subchunks[i] # c}

NumFields(store) == SumSeq([c \in DOMAIN store |-> Len(store[c].variables)])

NoCall == Call("none", 0, 0)

ChunkIdle == chunks = <<>> /\ fresh = {} /\ file = <<>> /\ ret = NoCall

NameIdle == name_unique = <<>> /\ name_mapping = <<>> /\ name_ret = <<>> /\ returned = {}

\* A mesh: the position of each vertex, the vertices and the uv keys of each
\* loop triangle, and whether it has a UV layer.
MeshData(vertices, loop_triangles, uv_layers) ==
    [vertices |-> vertices, loop_triangles |-> loop_triangles, uv_layers |-> uv_layers]

MeshIdle == mesh_arg = MeshData(<<>>, <<>>, FALSE) /\ mesh_ret = <<>>

UvIdle ==
    /\ verts = <<>> /\ tri_list = <<>> /\ tri_in = <<>> /\ uv_out = <<>> /\ uv_pc = "idle"
    /\ MeshIdle

SaveIdle == scene = <<>> /\ pc = "idle" /\ loc = <<>> /\ reports = <<>> /\ result = ""

TrackIdle == track_args = <<>> /\ track_ret = <<>> /\ track_err = ""

BuildIdle == build_args = <<>> /\ build_ret = <<>>

InitChunk == ChunkIdle /\ NameIdle /\ UvIdle /\ SaveIdle /\ TrackIdle /\ BuildIdle

NewChunk(tag) ==
    /\ Len(chunks) + NumFields(chunks) < MaxNodes
    /\ tag = (IF chunks = <<>> THEN PRIMARY ELSE OBJECT)
    /\ Roots(chunks) \subseteq {1}
    /\ chunks' = Append(chunks, ChunkNew(tag))
    /\ ret' = NoCall
    /\ file' = <<>>
    /\ UNCHANGED fresh

AddVariable(c, var) ==
    /\ Len(chunks) + NumFields(chunks) < MaxNodes
    /\ chunks' = ChunkAddVariable(chunks, c, var)
    /\ fresh' = fresh \ {c}
    /\ ret' = NoCall
    /\ file' = <<>>

\* A caller builds trees: a chunk is attached once, and never under itself.
AddSubchunk(c, chunk) ==
    /\ chunk \in Roots(chunks)
    /\ c \notin Subtree(chunks, chunk)
    /\ chunks' = ChunkAddSubchunk(chunks, c, chunk)
    /\ fresh' = fresh \ {c}
    /\ ret' = NoCall
    /\ file' = <<>>

GetSize(c) ==
    /\ c = 1
    /\ chunks' = ChunkGetSize(chunks, c)
    /\ fresh' = fresh \cup Subtree(chunks, c)
    /\ ret' = Call("get_size", c, chunks'[c].size)
    /\ file' = <<>>

Validate(c) ==
    /\ c \in Roots(chunks)
    /\ ret' = Call("validate", c, IF ChunkValidate(chunks, c) THEN 1 ELSE 0)
    /\ file' = <<>>
    /\ UNCHANGED <<chunks, fresh>>

Write(c) ==
    /\ c = 1
    /\ file' = UntilFailure(ChunkWrite(chunks, c))
    /\ ret' = Call("write", c, IF Len(file') = Len(ChunkWrite(chunks, c)) THEN 1 ELSE 0)
    /\ UNCHANGED <<chunks, fresh>>

NextChunk ==
    /\ \/ \E tag \in ChunkTags : NewChunk(tag)
       \/ \E c \in DOMAIN chunks : \E var \in FieldPool : AddVariable(c, var)
       \/ \E c \in DOMAIN chunks : \E chunk \in DOMAIN chunks : AddSubchunk(c, chunk)
       \/ \E c \in DOMAIN chunks : GetSize(c)
       \/ \E c \in DOMAIN chunks : Validate(c)
       \/ \E c \in DOMAIN chunks : Write(c)
    /\ UNCHANGED <<nameVars, uvVars, saveVars, trackVars, buildVars>>

SpecChunk == InitChunk /\ [][NextChunk]_vars

-----------------------------------------------------------------------------
(* Claims about the chunk tree. *)

FieldBytes(c) == SumSeq([i \in DOMAIN chunks[c].variables |-> VarWriteBytes(chunks[c].variables[i])])

ChildSizes(c) == SumSeq([i \in DOMAIN chunks[c].subchunks |-> chunks[chunks[c].subchunks[i]].size])

\* C1: right after get_size() on the root of a tree, every chunk of the tree
\* stores size = 6 + the byte lengths of its fields + the stored sizes of its
\* children.
C1_SizeInvariant ==
    ret.op = "get_size" =>
        \A c \in Subtree(chunks, ret.chunk) :
            chunks[c].size = 6 + FieldBytes(c) + ChildSizes(c)

\* C1 witness: get_size() returned for a root with a child and a grandchild
\* or second child, and with fields in the tree.
C1_Witness ==
    /\ ret.op = "get_size"
    /\ Cardinality(Subtree(chunks, ret.chunk)) >= 3
    /\ \E c \in Subtree(chunks, ret.chunk) : c # ret.chunk /\ chunks[c].variables # <<>>
    /\ ret.value > 18

SegmentsOf(cs) == SelectSeq(file, LAMBDA seg : seg.chunk \in cs)

EmittedBytes(cs) == SumSeq([i \in DOMAIN SegmentsOf(cs) |-> SegmentsOf(cs)[i].bytes])

DeclaredSize(c) == (CHOOSE i \in DOMAIN file : file[i].chunk = c /\ file[i].part = "size")

\* C2: when a tree is sized at its root and then written (the write runs to
\* its end), the length in every chunk's header is the number of bytes
\* write() emitted for that chunk's subtree.
C2_DeclaredEqualsEmitted ==
    (/\ ret.op = "write"
     /\ ret.value = 1
     /\ Subtree(chunks, ret.chunk) \subseteq fresh)
    => \A c \in Subtree(chunks, ret.chunk) :
          file[DeclaredSize(c)].value = EmittedBytes(Subtree(chunks, c))

\* C2 witness: a sized tree with a string, an array and a subchunk was written.
C2_Witness ==
    /\ ret.op = "write"
    /\ ret.value = 1
    /\ Subtree(chunks, ret.chunk) \subseteq fresh
    /\ Cardinality(Subtree(chunks, ret.chunk)) >= 2
    /\ \E c \in Subtree(chunks, ret.chunk) : \E i \in DOMAIN chunks[c].variables :
          chunks[c].variables[i].kind = "array" /\ chunks[c].variables[i].n > 0
    /\ \E c \in Subtree(chunks, ret.chunk) : \E i \in DOMAIN chunks[c].variables :
          chunks[c].variables[i].kind = "string"

OversizedArrayUnder(c) ==
    \E d \in Subtree(chunks, c) : \E i \in DOMAIN chunks[d].variables :
        chunks[d].variables[i].kind = "array" /\ chunks[d].variables[i].n > 65535

\* C4: validate() returns false exactly when an array field of the chunk or
\* of a descendant holds more than 65535 items.
C4_ValidateIffNoOversizedArray ==
    ret.op = "validate" => ((ret.value = 0) <=> OversizedArrayUnder(ret.chunk))

\* C4 witness: validate() returned true for a chunk with a descendant that
\* holds an array of exactly 65535 items.
C4_Witness ==
    /\ ret.op = "validate"
    /\ ret.value = 1
    /\ \E d \in Subtree(chunks, ret.chunk) \ {ret.chunk} : \E i \in DOMAIN chunks[d].variables :
          chunks[d].variables[i].kind = "array" /\ chunks[d].variables[i].n = 65535

\* Where the write of chunk c starts in the file.
StartOf(c) == CHOOSE i \in DOMAIN file : file[i].chunk = c /\ file[i].part = "ID"

\* The number of segments the chunks under c put into the file.
Extent(c) == Len(SegmentsOf(Subtree(chunks, c)))

\* C18: a write() that ran to its end left in the file, for every chunk of
\* the tree, its tag, then its size, then its variables in the order of
\* add_variable, then its subchunks in the order of add_subchunk, each
\* subchunk with its whole subtree before the next one starts, and nothing
\* else.
C18_PreOrder ==
    (ret.op = "write" /\ ret.value = 1) =>
        /\ file # <<>> /\ StartOf(ret.chunk) = 1 /\ Extent(ret.chunk) = Len(file)
        /\ \A c \in Subtree(chunks, ret.chunk) :
              LET at == StartOf(c)
                  nv == Len(chunks[c].variables)
                  sub == chunks[c].subchunks
              IN  /\ Cardinality({i \in DOMAIN file : file[i].chunk = c /\ file[i].part = "ID"}) = 1
                  /\ file[at].value = chunks[c].ID
                  /\ file[at + 1].chunk = c /\ file[at + 1].part = "size"
                  /\ \A i \in 1..nv : /\ file[at + 1 + i].chunk = c
                                      /\ file[at + 1 + i].part = "variable"
                                      /\ file[at + 1 + i].idx = i
                  /\ \A i \in at..(at + Extent(c) - 1) : file[i].chunk \in Subtree(chunks, c)
                  /\ sub # <<>> => StartOf(sub[1]) = at + 2 + nv
                  /\ \A k \in 1..(Len(sub) - 1) : StartOf(sub[k + 1]) = StartOf(sub[k]) + Extent(sub[k])
                  /\ Extent(c) = 2 + nv + SumSeq([k \in DOMAIN sub |-> Extent(sub[k])])

\* C18 witness: the tree written has a root with a variable and two
\* subchunks, the first of which has a subchunk of its own.
C18_Witness ==
    /\ ret.op = "write"
    /\ ret.value = 1
    /\ chunks[ret.chunk].variables # <<>>
    /\ Len(chunks[ret.chunk].subchunks) >= 2
    /\ chunks[chunks[ret.chunk].subchunks[1]].subchunks # <<>>

\* C27: get_size() on a tree no chunk of which was changed since the
\* get_size() before returns the value it returned then and leaves the
\* size stored in every chunk as it is.
C27_GetSizeIdempotent ==
    (chunks # <<>> /\ Subtree(chunks, 1) \subseteq fresh)
    => /\ ChunkGetSize(chunks, 1) = chunks
       /\ ret.op = "get_size" => ChunkGetSize(chunks, ret.chunk)[ret.chunk].size = ret.value

\* C27 witness: get_size() has returned for a root with fields that has a
\* subchunk with fields.
C27_Witness ==
    /\ ret.op = "get_size"
    /\ Subtree(chunks, 1) \subseteq fresh
    /\ chunks[1].variables # <<>>
    /\ \E i \in DOMAIN chunks[1].subchunks : chunks[chunks[1].subchunks[i]].variables # <<>>
    /\ ret.value = chunks[1].size

-----------------------------------------------------------------------------
(* sane_name driven by an arbitrary sequence of calls in one export. *)

A12 == [i \in 1..NameLimit |-> 97]

\* Source names: one of exactly twelve characters and two longer ones that
\* agree with it on the first twelve, a non-ASCII character, a '?', and the
\* first suffixed form of '?'.
NamePool ==
    { A12, A12 \o <<98>>, A12 \o <<99>>, <<233>>, <<63>>, <<63>> \o Suffix(0) }

InitName == ChunkIdle /\ NameIdle /\ UvIdle /\ SaveIdle /\ TrackIdle /\ BuildIdle

CallSaneName(name) ==
    LET r == SaneName(name, name_unique, name_mapping)
    IN  /\ name_unique' = r.unique
        /\ name_mapping' = r.mapping
        /\ name_ret' = r.result
        /\ returned' = returned \cup {<<name, r.result>>}
        /\ UNCHANGED <<chunkVars, uvVars, saveVars, trackVars, buildVars>>

NextName == \E name \in NamePool : CallSaneName(name)

SpecName == InitName /\ [][NextName]_vars

-----------------------------------------------------------------------------
(* Claims about sane_name. *)

\* C9: every identifier sane_name returns is ASCII and at most 12 bytes long.
C9_IdentifiersShort ==
    \A p \in returned : Len(p[2]) <= 12 /\ \A i \in DOMAIN p[2] : p[2][i] < 128

\* C10: two distinct source names never receive the same identifier.
C10_IdentifiersDistinct ==
    \A p, q \in returned : p[1] # q[1] => p[2] # q[2]

\* C10 witness: two names that agree after replacement and truncation were
\* both mapped, and so was a name equal to the suffixed identifier of another.
C10_Witness ==
    /\ \E p, q \in returned :
          /\ p[1] # q[1]
          /\ Len(p[1]) > 12
          /\ Truncate(AsciiReplace(p[1])) = Truncate(AsciiReplace(q[1]))
    /\ \E p, q \in returned :
          /\ p[1] # q[1]
          /\ q[1] = p[2]
          /\ p[2] = AsciiReplace(p[1]) \o Suffix(0)

\* C11: within one export a source name gets one identifier: every call
\* with a name already mapped returns what the first call returned, whatever
\* was mapped in between.
C11_SameNameSameIdentifier ==
    /\ \A p, q \in returned : p[1] = q[1] => p[2] = q[2]
    /\ \A p \in returned : p[1] \in DOMAIN name_mapping /\ name_mapping[p[1]] = p[2]

\* C11 witness: the last call returned the identifier handed out first,
\* after at least two other names were mapped.
C11_Witness ==
    /\ Len(name_unique) >= 3
    /\ name_ret = AsciiReplace(name_unique[1])
    /\ \E p \in returned : p[2] = name_ret

-----------------------------------------------------------------------------
(* remove_face_uv applied to the triangles of a mesh with a UV layer. *)

\* Meshes of three or four vertices; vertex k lies at position 10 + k.
VertPool == { [i \in 1..n |-> 9 + i] : n \in {3, 4} }

\* The corners of a triangle: in order, rotated, one that leaves vertex 1
\* out, and a degenerate one.
TriVertexPool == { <<0, 1, 2>>, <<2, 0, 1>>, <<0, 2, 3>>, <<1, 1, 2>> }

\* uv keys as extract_triangles stores them (uv_key: rounded to 6 digits),
\* in units of 10^-6.
UvKeyPool == { <<0, 0>>, <<500000, 0>> }

InitUV ==
    /\ ChunkIdle /\ NameIdle /\ SaveIdle /\ TrackIdle /\ BuildIdle
    /\ verts \in VertPool
    /\ tri_list = <<>>
    /\ tri_in = <<>>
    /\ uv_out = <<>>
    /\ uv_pc = "input"
    /\ MeshIdle

\* extract_triangles appends one more tri_wrapper.
AddTri(vindex, faceuvs) ==
    /\ uv_pc = "input"
    /\ Len(tri_list) < MaxTris
    /\ \A i \in 1..3 : vindex[i] < Len(verts)
    /\ tri_list' = Append(tri_list, TriWrapper(vindex, faceuvs))
    /\ UNCHANGED <<verts, tri_in, uv_out, uv_pc, mesh_arg, mesh_ret,
                   chunkVars, nameVars, saveVars, trackVars, buildVars>>

CallRemoveFaceUV ==
    /\ uv_pc = "input"
    /\ LET r == RemoveFaceUV(verts, tri_list)
       IN  /\ tri_list' = r.tri_list
           /\ uv_out' = [vert_array |-> r.vert_array, uv_array |-> r.uv_array]
    /\ tri_in' = tri_list
    /\ uv_pc' = "done"
    /\ UNCHANGED <<verts, mesh_arg, mesh_ret, chunkVars, nameVars, saveVars, trackVars, buildVars>>

NextUV ==
    \/ \E vindex \in TriVertexPool : \E faceuvs \in [1..3 -> UvKeyPool] : AddTri(vindex, faceuvs)
    \/ CallRemoveFaceUV

SpecUV == InitUV /\ [][NextUV]_vars

-----------------------------------------------------------------------------
(* Claims about remove_face_uv. *)

Corners == {<<t, i>> : t \in DOMAIN tri_in, i \in 1..3}

\* The distinct uv keys seen at original vertex v over all triangle corners.
KeysAt(v) == {tri_in[c[1]].faceuvs[c[2]] : c \in {d \in Corners : tri_in[d[1]].vertex_index[d[2]] = v}}

RECURSIVE SumOver(_, _)
SumOver(f, n) == IF n = 0 THEN 0 ELSE f[n] + SumOver(f, n - 1)

\* C6 as stated: the number of output vertices is the sum over the original
\* vertices of max(1, number of distinct uv keys at the vertex).
C6_CountWithMinimumOne ==
    uv_pc = "done" =>
        Len(uv_out.vert_array)
          = SumOver([k \in 1..Len(verts) |-> Max(1, Cardinality(KeysAt(k - 1)))], Len(verts))

\* C6 amended: the number of output vertices is the sum over the original
\* vertices of the number of distinct uv keys at the vertex; a vertex used by
\* no triangle yields no output vertex.
C6_CountIsSumOfDistinctKeys ==
    uv_pc = "done" =>
        Len(uv_out.vert_array)
          = SumOver([k \in 1..Len(verts) |-> Cardinality(KeysAt(k - 1))], Len(verts))

\* C6 witness: a mesh where one vertex has two uv keys and another vertex is
\* used by no triangle went through remove_face_uv.
C6_Witness ==
    /\ uv_pc = "done"
    /\ \E v \in 0..(Len(verts) - 1) : Cardinality(KeysAt(v)) = 2
    /\ \E v \in 0..(Len(verts) - 1) : KeysAt(v) = {}

\* C7: every rewritten index is at least 0 and less than the length of the
\* returned vertex array.
C7_IndicesInRange ==
    uv_pc = "done" =>
        \A t \in DOMAIN tri_list : \A i \in 1..3 :
            /\ tri_list[t].vertex_index[i] >= 0
            /\ tri_list[t].vertex_index[i] < Len(uv_out.vert_array)

\* C7 witness: two triangles were rewritten, a vertex was duplicated and a
\* corner points at the last slot of the vertex array.
C7_Witness ==
    /\ uv_pc = "done"
    /\ Len(tri_list) >= 2
    /\ Len(uv_out.vert_array) > Len(verts)
    /\ \E t \in DOMAIN tri_list : \E i \in 1..3 :
          tri_list[t].vertex_index[i] = Len(uv_out.vert_array) - 1

\* C8: two corners with the same original vertex and the same uv key are
\* rewritten to the same output index.
C8_SharedCornersShareIndex ==
    uv_pc = "done" =>
        \A c, d \in Corners :
            (/\ tri_in[c[1]].vertex_index[c[2]] = tri_in[d[1]].vertex_index[d[2]]
             /\ tri_in[c[1]].faceuvs[c[2]] = tri_in[d[1]].faceuvs[d[2]])
            => tri_list[c[1]].vertex_index[c[2]] = tri_list[d[1]].vertex_index[d[2]]

\* C8 witness: corners of two different triangles share vertex and key, at a
\* vertex that also has a second key that was seen first.
C8_Witness ==
    /\ uv_pc = "done"
    /\ \E c, d \in Corners :
          /\ c[1] # d[1]
          /\ tri_in[c[1]].vertex_index[c[2]] = tri_in[d[1]].vertex_index[d[2]]
          /\ tri_in[c[1]].faceuvs[c[2]] = tri_in[d[1]].faceuvs[d[2]]
          /\ Cardinality(KeysAt(tri_in[c[1]].vertex_index[c[2]])) = 2
          /\ tri_list[c[1]].vertex_index[c[2]] > 0
          /\ \E e \in Corners :
                /\ tri_in[e[1]].vertex_index[e[2]] = tri_in[c[1]].vertex_index[c[2]]
                /\ tri_list[e[1]].vertex_index[e[2]] = tri_list[c[1]].vertex_index[c[2]] - 1

\* The original vertex and the uv key of corner c.
VertexOf(c) == tri_in[c[1]].vertex_index[c[2]]

KeyOf(c) == tri_in[c[1]].faceuvs[c[2]]

\* The place of corner c in the order the corners are gone through.
Place(c) == 3 * (c[1] - 1) + c[2]

\* The number of distinct keys of the vertex of c first seen before its key.
RankOf(c) ==
    Cardinality({k \in KeysAt(VertexOf(c)) :
        \E d \in Corners :
            /\ VertexOf(d) = VertexOf(c) /\ KeyOf(d) = k /\ Place(d) < Place(c)
            /\ \A e \in Corners :
                  VertexOf(e) = VertexOf(c) /\ KeyOf(e) = KeyOf(c) => Place(d) < Place(e)})

\* The number of output vertices of the original vertices before v.
CumulativeOffset(v) == SumOver([k \in 1..v |-> Cardinality(KeysAt(k - 1))], v)

\* C20: the uv array is as long as the vertex array, and every corner with
\* original vertex v and uv key k is rewritten to the index
\* cumulative_offset[v] + the rank of k among the keys of v in first-seen
\* order, where the vertex array has the position of v and the uv array k.
C20_RewrittenIndex ==
    uv_pc = "done" =>
        /\ Len(uv_out.uv_array) = Len(uv_out.vert_array)
        /\ \A c \in Corners :
              /\ tri_list[c[1]].vertex_index[c[2]] = CumulativeOffset(VertexOf(c)) + RankOf(c)
              /\ uv_out.vert_array[tri_list[c[1]].vertex_index[c[2]] + 1] = verts[VertexOf(c) + 1]
              /\ uv_out.uv_array[tri_list[c[1]].vertex_index[c[2]] + 1] = KeyOf(c)

\* C20 witness: a corner whose key is the second of its vertex, at a vertex
\* that comes after others with keys, was rewritten.
C20_Witness ==
    /\ uv_pc = "done"
    /\ \E c \in Corners :
          /\ RankOf(c) = 1
          /\ CumulativeOffset(VertexOf(c)) >= 2
          /\ tri_list[c[1]].vertex_index[c[2]] = CumulativeOffset(VertexOf(c)) + 1

-----------------------------------------------------------------------------
(* save().  The chunk IDs it uses. *)

VERSION == 2

KFDATA == 45056

OBJECTINFO == 15677

MESHVERSION == 15678

AMBIENTLIGHT == 8448

MATERIAL == 45055

MATNAME == 40960

MATAMBIENT == 40976

MATDIFFUSE == 40992

MATSPECULAR == 41008

MATSHINESS == 41024

MATSHIN2 == 41025

MATSHIN3 == 41026

MATTRANS == 41040

MATSHADING == 41216

RGB == 16

RGB1 == 17

PCT == 48

MASTERSCALE == 256

OBJECT_MESH == 16640

OBJECT_LIGHT == 17920

OBJECT_CAMERA == 18176

LIGHT_MULTIPLIER == 18011

LIGHT_SPOTLIGHT == 17936

LIGHT_SPOT_ROLL == 18006

OBJECT_VERTICES == 16656

OBJECT_FACES == 16672

OBJECT_MATERIAL == 16688

OBJECT_UV == 16704

OBJECT_SMOOTH == 16720

OBJECT_TRANS_MATRIX == 16736

AMBIENT_NODE_TAG == 45057

OBJECT_NODE_TAG == 45058

CAMERA_NODE_TAG == 45059

TARGET_NODE_TAG == 45060

LIGHT_NODE_TAG == 45061

LTARGET_NODE_TAG == 45062

SPOT_NODE_TAG == 45063

KFDATA_KFSEG == 45064

KFDATA_KFCURTIME == 45065

KFDATA_KFHDR == 45066

OBJECT_NODE_ID == 45104

OBJECT_NODE_HDR == 45072

OBJECT_INSTANCE_NAME == 45073

OBJECT_PARENT_NAME == 33008

OBJECT_PIVOT == 45075

OBJECT_BOUNDBOX == 45076

POS_TRACK_TAG == 45088

ROT_TRACK_TAG == 45089

SCL_TRACK_TAG == 45090

FOV_TRACK_TAG == 45091

ROLL_TRACK_TAG == 45092

COL_TRACK_TAG == 45093

HOTSPOT_TRACK_TAG == 45095

FALLOFF_TRACK_TAG == 45096

ROOT_OBJECT == 65535

-----------------------------------------------------------------------------
(* The chunk builders save() calls.  A builder returns the tree it makes   *)
(* as a value: T(ID, variables, kids); Alloc puts the chunks of a tree     *)
(* into the store, the root last.  A builder that calls sane_name takes    *)
(* name_mapping as it is once the calls are made: sane_name(name) returns  *)
(* name_mapping[name], and an entry never changes.  The objects of the     *)
(* scene carry no animation data, which is the else branch of every track. *)

Ushort3ds(v) == PrimV("ushort", <<v>>)

Uint3ds(v) == PrimV("uint", <<v>>)

\* c = _3ds_chunk(ID), its add_variable calls, its add_subchunk calls.
T(ID, variables, kids) == [ID |-> ID, variables |-> variables, kids |-> kids]

RECURSIVE Alloc(_, _)
RECURSIVE AllocAll(_, _)

AllocRoot(r, t) ==
    Append(r.store, [ChunkNew(t.ID) EXCEPT !.variables = t.variables, !.subchunks = r.ids])

AllocNext(r, store) == [store |-> store, ids |-> Append(r.ids, Len(store))]

\* The store with the chunks of every tree of trees, and their roots; r
\* holds those of the first Len(r.ids) trees.
AllocAll(r, trees) ==
    IF Len(r.ids) = Len(trees) THEN r
    ELSE AllocAll(AllocNext(r, Alloc(r.store, trees[Len(r.ids) + 1])), trees)

\* The store with the chunks of tree t; its root is the last chunk.
Alloc(store, t) == AllocRoot(AllocAll([store |-> store, ids |-> <<>>], t.kids), t)

\* c.add_subchunk of the last chunk of the store.
AttachTop(store, c) == ChunkAddSubchunk(store, c, Len(store))

\* c.add_subchunk(t) for a tree just built.
Attach(store, c, t) == AttachTop(Alloc(store, t), c)

RECURSIVE SaneNamesNext(_, _, _)
SaneNamesNext(r, names, i) ==
    IF i > Len(names) THEN [unique |-> r.unique, mapping |-> r.mapping]
    ELSE SaneNamesNext(SaneName(names[i], r.unique, r.mapping), names, i + 1)

\* The name tables after sane_name has been called with each of names.
SaneNames(names) ==
    SaneNamesNext([unique |-> name_unique, mapping |-> name_mapping], names, 1)

\* The name of no material: material is None.
NoMaterial == <<>>

\* "None"
NoneStr == <<78, 111, 110, 101>>

\* name_str = material.name if material else "None"
NameStr(material) == IF material = NoMaterial THEN NoneStr ELSE material

MakeMaterialSubchunk(chunk_id) == T(chunk_id, <<>>, <<T(RGB1, <<Prim("rgb_color")>>, <<>>)>>)

\* The percentage, which no size depends on, is carried as 0.
MakePercentSubchunk(chunk_id) == T(chunk_id, <<>>, <<T(PCT, <<Ushort3ds(0)>>, <<>>)>>)

\* make_material_chunk(material, None) for no material and for a material
\* without nodes.
MakeMaterialChunk(nm, material) ==
    T(MATERIAL, <<>>,
      <<T(MATNAME, <<String3ds(nm[NameStr(material)])>>, <<>>),
        MakeMaterialSubchunk(MATAMBIENT),
        MakeMaterialSubchunk(MATDIFFUSE),
        MakeMaterialSubchunk(MATSPECULAR),
        MakePercentSubchunk(MATSHINESS),
        MakePercentSubchunk(MATSHIN2)>>
      \o (IF material = NoMaterial THEN <<>>
          ELSE <<MakePercentSubchunk(MATSHIN3), MakePercentSubchunk(MATTRANS)>>)
      \o <<T(MATSHADING, <<Ushort3ds(IF material = NoMaterial THEN 1 ELSE 2)>>, <<>>)>>)

\* The length of the vert_array make_mesh_chunk builds: the array that
\* remove_face_uv returns for a mesh with a UV layer, else one point per
\* mesh vertex.
VertArrayLen(mesh) == IF mesh.uv THEN mesh.uv_verts ELSE mesh.nverts

\* The names make_faces_chunk calls sane_name with, in order; every
\* triangle has material index 0 and no image.
FacesNames(mesh) ==
    IF mesh.uv
    THEN IF mesh.ntris = 0 THEN <<>>
         ELSE <<NameStr(IF mesh.materials = <<>> THEN NoMaterial ELSE mesh.materials[1])>>
    ELSE mesh.materials

\* The OBJECT_MATERIAL chunks of make_faces_chunk: with a UV layer one per
\* (material, image) pair in use, else one per material of the mesh.
ObjMaterials(nm, mesh) ==
    [i \in DOMAIN FacesNames(mesh) |->
        T(OBJECT_MATERIAL,
          <<String3ds(nm[FacesNames(mesh)[i]]),
            ArrayAdd(ArrayNew, Prim("ushort"), IF i = 1 THEN mesh.ntris ELSE 0)>>,
          <<>>)]

\* make_faces_chunk(tri_list, mesh, materialDict)
MakeFacesChunk(nm, mesh) ==
    T(OBJECT_FACES,
      <<ArrayAdd(ArrayNew, Prim("face"), mesh.ntris)>>,
      ObjMaterials(nm, mesh)
      \o (IF mesh.smooth
          THEN <<T(OBJECT_SMOOTH, [i \in 1..mesh.ntris |-> Uint3ds(0)], <<>>)>>
          ELSE <<>>))

\* make_mesh_chunk(ob, mesh, matrix, materialDict, translation)
MakeMeshChunk(nm, mesh) ==
    T(OBJECT_MESH, <<>>,
      <<T(OBJECT_VERTICES,
          <<ArrayAdd(ArrayNew, Prim("point_3d"), VertArrayLen(mesh))>>, <<>>),
        MakeFacesChunk(nm, mesh)>>
      \o (IF mesh.uv
          THEN <<T(OBJECT_UV,
                   <<ArrayAdd(ArrayNew, Prim("point_uv"), VertArrayLen(mesh))>>, <<>>)>>
          ELSE <<>>)
      \o <<T(OBJECT_TRANS_MATRIX, [i \in 1..12 |-> Prim("float")], <<>>)>>)

\* b'Blender'
BlenderStr == <<66, 108, 101, 110, 100, 101, 114>>

\* The variables of a track without animation: flags, start, total, nkeys,
\* the frame and the flags of its one key.
StaticTrackHeader ==
    <<Ushort3ds(64), Uint3ds(0), Uint3ds(0), Uint3ds(1), Uint3ds(0), Ushort3ds(0)>>

\* The class of the value of a key of each track.
TrackValue(ID) ==
    CASE ID = POS_TRACK_TAG -> Prim("point_3d")
      [] ID = ROT_TRACK_TAG -> Prim("point_4d")
      [] ID = SCL_TRACK_TAG -> Prim("point_3d")
      [] ID = COL_TRACK_TAG -> Prim("float_color")
      [] OTHER              -> Prim("float")

\* A time (kf.co[0], frame_start, frame_end) is a float: it is carried as
\* a whole number of steps of 1/TimeUnit of a frame.
TimeUnit == 2

\* animation_data of an ID block: None, or its action, None or the fcurves
\* and the frame range; an fcurve is [data_path, keyframe_points].
Animation(present, action, fcurves) ==
    [present |-> present, action |-> action, fcurves |-> fcurves,
     frame_start |-> 0, frame_end |-> 4 * TimeUnit]

\* animation_data is None
NoAnimation == Animation(FALSE, FALSE, <<>>)

\* sorted(set(kframes))
SortedSet(kframes) ==
    [i \in 1..Cardinality(Range(kframes)) |->
        CHOOSE x \in Range(kframes) : Cardinality({y \in Range(kframes) : y < x}) = i - 1]

\* kframes of the first fcurve: its keyframe times, 0 appended if not among
\* them, sorted and without duplicates.
KFrames(fcurves) ==
    SortedSet(IF 0 \in Range(fcurves[1].keyframe_points)
              THEN fcurves[1].keyframe_points
              ELSE Append(fcurves[1].keyframe_points, 0))

\* nkeys: len(kframes) before the deduplication, one more if 0 was appended.
NKeys(fcurves) ==
    Len(fcurves[1].keyframe_points)
    + (IF 0 \in Range(fcurves[1].keyframe_points) THEN 0 ELSE 1)

\* The key at frame: tcb_frame = int(frame), tcb_flags, and the value: what
\* the fcurves of one of paths evaluate to at frame (carried as the frame
\* they are evaluated at), or the current value if there is none.
TrackKey(fcurves, frame, value, paths) ==
    <<Uint3ds(frame \div TimeUnit), Ushort3ds(0),
      IF \E i \in DOMAIN fcurves : fcurves[i].data_path \in paths
      THEN PrimV(value.kind, <<frame>>) ELSE value>>

\* The variables the three track builders add: the animated branch if
\* there is an action, in which nothing is added if the action has no
\* fcurves, else the one key of the current value.
TrackVariables(anim, value, paths) ==
    IF anim.present /\ anim.action
    THEN IF anim.fcurves # <<>>
         THEN <<Ushort3ds(64), Uint3ds(anim.frame_start \div TimeUnit),
                Uint3ds(anim.frame_end \div TimeUnit), Uint3ds(NKeys(anim.fcurves))>>
              \o FlattenSeq([i \in DOMAIN KFrames(anim.fcurves) |->
                    TrackKey(anim.fcurves, KFrames(anim.fcurves)[i], value, paths)])
         ELSE <<>>
    ELSE StaticTrackHeader \o <<value>>

\* The data_path of the fcurves a track evaluates.
TrackPaths(ID) ==
    CASE ID = POS_TRACK_TAG     -> {"location"}
      [] ID = ROT_TRACK_TAG     -> {"rotation_euler"}
      [] ID = SCL_TRACK_TAG     -> {"scale"}
      [] ID = ROLL_TRACK_TAG    -> {"rotation_euler"}
      [] ID = COL_TRACK_TAG     -> {"color"}
      [] ID = FOV_TRACK_TAG     -> {"lens"}
      [] ID = HOTSPOT_TRACK_TAG -> {"spot_blend"}
      [] ID = FALLOFF_TRACK_TAG -> {"spot_size"}

\* The number of fcurves of a data_path: the length of the list
\* [fc.evaluate(frame) for fc in fcurves if fc.data_path == path].
CurveCount(fcurves, path) ==
    Cardinality({i \in DOMAIN fcurves : fcurves[i].data_path = path})

\* The branch of a builder that samples the fcurves is taken.
Sampled(anim) == anim.present /\ anim.action /\ anim.fcurves # <<>>

\* The expression of make_track_chunk that raises at the first key, "" if
\* none does.  The list of samples, or of the one current value appended
\* to an empty list, is unpacked into three (_3ds_point_3d,
\* _3ds_float_color, mathutils.Euler), indexed at 1 (roll) or at 0.
TrackChunkRaises(ID, anim) ==
    IF ~Sampled(anim) THEN ""
    ELSE CASE ID = POS_TRACK_TAG ->
                 IF CurveCount(anim.fcurves, "location") = 3 THEN ""
                 ELSE "_3ds_point_3d(position)"
           [] ID = ROT_TRACK_TAG ->
                 IF CurveCount(anim.fcurves, "rotation_euler") = 3 THEN ""
                 ELSE "mathutils.Euler(rotation)"
           [] ID = SCL_TRACK_TAG ->
                 IF CurveCount(anim.fcurves, "scale") = 3 THEN ""
                 ELSE "_3ds_point_3d(size)"
           [] ID = ROLL_TRACK_TAG ->
                 IF CurveCount(anim.fcurves, "rotation_euler") >= 2 THEN ""
                 ELSE "roll[1]"
           [] ID = COL_TRACK_TAG ->
                 IF CurveCount(anim.fcurves, "color") = 3 THEN ""
                 ELSE "_3ds_float_color(color)"
           [] OTHER -> ""

\* The expression of make_target_node that raises at the first key:
\* target_pos is the samples of the location curves or [ob_pos], target_rot
\* the samples of the rotation curves or the three angles of ob_rot.
TargetNodeRaises(anim) ==
    IF ~Sampled(anim) THEN ""
    ELSE IF CurveCount(anim.fcurves, "location") = 0 THEN "pow(target_pos[0], 2)"
    ELSE IF CurveCount(anim.fcurves, "location") = 1 THEN "target_pos[1]"
    ELSE IF CurveCount(anim.fcurves, "rotation_euler") \in {1, 2} THEN "target_rot[2]"
    ELSE ""

\* The expression of make_ambient_node that raises at the first key.
AmbientNodeRaises(anim) ==
    IF ~(anim.action /\ anim.fcurves # <<>>) THEN ""
    ELSE IF CurveCount(anim.fcurves, "color") = 3 THEN ""
    ELSE "_3ds_float_color(ambient)"

\* The animation data a track looks at: the first four tracks at
\* ob.animation_data, the other four at ob.data.animation_data.
TrackAnimation(ID, ob) ==
    IF ID \in {POS_TRACK_TAG, ROT_TRACK_TAG, SCL_TRACK_TAG, ROLL_TRACK_TAG}
    THEN ob.animation_data ELSE ob.data_animation_data

\* The value of the one key of a track without animation: ob_pos, ob_rot
\* and ob_size for the position, rotation and scale tracks, a value of the
\* object or of its data for the others.
CurrentValue(ID, ob_pos, ob_rot, ob_size) ==
    CASE ID = POS_TRACK_TAG -> PrimV("point_3d", ob_pos)
      [] ID = ROT_TRACK_TAG -> PrimV("point_4d", ob_rot)
      [] ID = SCL_TRACK_TAG -> PrimV("point_3d", ob_size)
      [] OTHER              -> TrackValue(ID)

\* make_track_chunk(ID, ob, ob_pos, ob_rot, ob_size)
MakeTrackChunk(ID, ob, ob_pos, ob_rot, ob_size) ==
    T(ID,
      TrackVariables(TrackAnimation(ID, ob),
                     CurrentValue(ID, ob_pos, ob_rot, ob_size), TrackPaths(ID)),
      <<>>)

\* translation[name] - translation[parent.name]
VectorSub(a, b) == [i \in 1..3 |-> a[i] - b[i]]

\* parent is not None and parent.name in name_id; ob.parent is <<>> for
\* None, or holds the parent.
ParentTracked(ob, name_id) ==
    ob.parent # <<>> /\ ob.parent[1].name \in DOMAIN name_id

\* ob_pos, ob_rot and ob_size of make_object_node.  translation, rotation
\* and scale hold the location, rotation and scale of each object in
\* name_id; a rotation is carried as the rotations it is the product of.
NodeTransform(ob, name_id) ==
    IF ParentTracked(ob, name_id)
    THEN [ob_pos |-> VectorSub(ob.location, ob.parent[1].location),
          ob_rot |-> <<ob.rotation, ob.parent[1].rotation>>,
          ob_size |-> <<1, 1, 1>>]
    ELSE [ob_pos |-> ob.location, ob_rot |-> <<ob.rotation>>, ob_size |-> ob.scale]

\* b"$$$DUMMY"
DummyStr == <<36, 36, 36, 68, 85, 77, 77, 89>>

\* b"$AMBIENT$"
AmbientStr == <<36, 65, 77, 66, 73, 69, 78, 84, 36>>

\* The tracks make_object_node adds, by the type of the object.
ObjectTracks(ob) ==
    <<POS_TRACK_TAG>>
    \o (IF ob.type \in {"MESH", "EMPTY"} THEN <<ROT_TRACK_TAG, SCL_TRACK_TAG>> ELSE <<>>)
    \o (IF ob.type = "CAMERA" THEN <<FOV_TRACK_TAG, ROLL_TRACK_TAG>> ELSE <<>>)
    \o (IF ob.type = "LIGHT" THEN <<COL_TRACK_TAG>> ELSE <<>>)
    \o (IF ob.type = "LIGHT" /\ ob.spot
        THEN <<HOTSPOT_TRACK_TAG, FALLOFF_TRACK_TAG, ROLL_TRACK_TAG>> ELSE <<>>)

\* The chunk ID of the node make_object_node makes.
NodeTag(ob) ==
    IF ob.type = "CAMERA" THEN CAMERA_NODE_TAG
    ELSE IF ob.type = "LIGHT" THEN (IF ob.spot THEN SPOT_NODE_TAG ELSE LIGHT_NODE_TAG)
    ELSE OBJECT_NODE_TAG

\* What each make_track_chunk call of make_object_node raises.
TrackErrors(ob) ==
    [i \in DOMAIN ObjectTracks(ob) |->
        TrackChunkRaises(ObjectTracks(ob)[i], TrackAnimation(ObjectTracks(ob)[i], ob))]

\* The expression that raises in the first track of make_object_node that
\* raises, "" if none does.
ObjectNodeRaises(ob) ==
    IF \A i \in DOMAIN TrackErrors(ob) : TrackErrors(ob)[i] = ""
    THEN ""
    ELSE TrackErrors(ob)[CHOOSE i \in DOMAIN TrackErrors(ob) :
                            /\ TrackErrors(ob)[i] # ""
                            /\ \A j \in 1..(i - 1) : TrackErrors(ob)[j] = ""]

\* make_object_node(ob, translation, rotation, scale, name_id)
MakeObjectNode(nm, ob, name_id) ==
    T(NodeTag(ob), <<>>,
      <<T(OBJECT_NODE_ID, <<Ushort3ds(name_id[ob.name])>>, <<>>),
        T(OBJECT_NODE_HDR,
          IF ob.type = "EMPTY"
          THEN <<String3ds(DummyStr), Ushort3ds(16384), Ushort3ds(0), Ushort3ds(ROOT_OBJECT)>>
          ELSE <<String3ds(nm[ob.name]), Ushort3ds(64), Ushort3ds(0), Ushort3ds(ROOT_OBJECT)>>,
          <<>>)>>
      \o (IF ParentTracked(ob, name_id)
          THEN <<T(OBJECT_PARENT_NAME, <<String3ds(nm[ob.parent[1].name])>>, <<>>)>>
          ELSE <<>>)
      \o (IF ob.type = "EMPTY"
          THEN <<T(OBJECT_INSTANCE_NAME, <<String3ds(nm[ob.name])>>, <<>>)>>
          ELSE <<>>)
      \o (IF ob.type \in {"MESH", "EMPTY"}
          THEN <<T(OBJECT_PIVOT, <<Prim("point_3d")>>, <<>>),
                 T(OBJECT_BOUNDBOX, <<Prim("point_3d"), Prim("point_3d")>>, <<>>)>>
          ELSE <<>>)
      \o [i \in DOMAIN ObjectTracks(ob) |->
            MakeTrackChunk(ObjectTracks(ob)[i], ob, NodeTransform(ob, name_id).ob_pos,
                           NodeTransform(ob, name_id).ob_rot,
                           NodeTransform(ob, name_id).ob_size)])

\* name_id["\xf8 " + name] = len(name_id), the first statement of
\* make_target_node.
TargetNameId(name_id, name) ==
    (<<248, 32>> \o name :> Cardinality(DOMAIN name_id)) @@ name_id

\* name_id[name] = len(name_id)
NewNameId(name_id, name) == (name :> Cardinality(DOMAIN name_id)) @@ name_id

\* A target node whose position track is always the one of an object
\* without animation.
MakeTargetNodeStatic(nm, ob, name_id) ==
    T(IF ob.type = "CAMERA" THEN TARGET_NODE_TAG ELSE LTARGET_NODE_TAG, <<>>,
      <<T(OBJECT_NODE_ID, <<Ushort3ds(name_id[ob.name])>>, <<>>),
        T(OBJECT_NODE_HDR,
          <<String3ds(nm[ob.name]), Ushort3ds(16), Ushort3ds(0), Ushort3ds(ROOT_OBJECT)>>,
          <<>>),
        T(POS_TRACK_TAG, StaticTrackHeader \o <<Prim("point_3d")>>, <<>>)>>)

\* make_target_node(ob, translation, rotation, scale, name_id), after its
\* first statement.
MakeTargetNode(nm, ob, name_id) ==
    T(IF ob.type = "CAMERA" THEN TARGET_NODE_TAG ELSE LTARGET_NODE_TAG, <<>>,
      <<T(OBJECT_NODE_ID, <<Ushort3ds(name_id[ob.name])>>, <<>>),
        T(OBJECT_NODE_HDR,
          <<String3ds(nm[ob.name]), Ushort3ds(16), Ushort3ds(0), Ushort3ds(ROOT_OBJECT)>>,
          <<>>),
        T(POS_TRACK_TAG,
          TrackVariables(ob.animation_data, Prim("point_3d"), {"location", "rotation_euler"}),
          <<>>)>>)

\* make_ambient_node(world), called for a world that has animation_data.
MakeAmbientNode(world_animation_data) ==
    T(AMBIENT_NODE_TAG, <<>>,
      <<T(OBJECT_NODE_ID, <<Ushort3ds(ROOT_OBJECT)>>, <<>>),
        T(OBJECT_NODE_HDR,
          <<String3ds(AmbientStr), Ushort3ds(16384), Ushort3ds(0), Ushort3ds(ROOT_OBJECT)>>,
          <<>>),
        T(COL_TRACK_TAG,
          TrackVariables(world_animation_data, Prim("float_color"), {"color"}),
          <<>>)>>)

\* make_kfdata(revision, start, stop, curtime), the scene at frame 0 of
\* 0..0, and the ambient node save() adds to it if world.animation_data.
MakeKfdata(world_animation_data) ==
    T(KFDATA, <<>>,
      <<T(KFDATA_KFHDR, <<Ushort3ds(5), String3ds(BlenderStr), Uint3ds(0)>>, <<>>),
        T(KFDATA_KFSEG, <<Uint3ds(0), Uint3ds(0)>>, <<>>),
        T(KFDATA_KFCURTIME, <<Uint3ds(0)>>, <<>>)>>
      \o (IF world_animation_data.present
          THEN <<MakeAmbientNode(world_animation_data)>> ELSE <<>>))

-----------------------------------------------------------------------------
(* save() applied to a scene. *)

\* Objects of a scene.
MaxObjects == 2

\* A mesh as to_mesh() returns it: the number of its triangles and of its
\* vertices, whether it has a UV layer, the length of the vertex array
\* remove_face_uv makes of it, its materials by name, and whether a polygon
\* of it is smooth.
Mesh(ntris, nverts, uv, uv_verts, materials, smooth) ==
    [ntris |-> ntris, nverts |-> nverts, uv |-> uv, uv_verts |-> uv_verts,
     materials |-> materials, smooth |-> smooth]

NoMesh == Mesh(0, 0, FALSE, 0, <<>>, FALSE)

\* Two triangles over four vertices; vertex 0 has one uv in the first and
\* another in the second.
SmallVerts == <<10, 11, 12, 13>>

SmallTris ==
    <<TriWrapper(<<0, 1, 2>>, [i \in 1..3 |-> <<0, 0>>]),
      TriWrapper(<<0, 2, 3>>, <<<<500000, 0>>, <<0, 0>>, <<0, 0>>>>)>>

\* "M"
MatName == <<77>>

\* The objects of the scenes: a small smooth mesh with a UV layer, meshes
\* at the limit of the format and past it in faces, in vertices and in the
\* vertices that the UV split makes; an empty, a point light, a spot light
\* and a camera.
ObjectKinds ==
    {"uv", "limit", "faces_over", "verts_over", "uv_over",
     "empty", "light", "spot", "camera"}

MeshOf(kind) ==
    CASE kind = "uv"         -> Mesh(Len(SmallTris), Len(SmallVerts), TRUE,
                                     Len(RemoveFaceUV(SmallVerts, SmallTris).vert_array),
                                     <<MatName>>, TRUE)
      [] kind = "limit"      -> Mesh(ArrayLimit, ArrayLimit, FALSE, 0, <<MatName>>, FALSE)
      [] kind = "faces_over" -> Mesh(ArrayLimit + 1, 4, FALSE, 0, <<MatName>>, FALSE)
      [] kind = "verts_over" -> Mesh(30000, ArrayLimit + 1, FALSE, 0, <<>>, FALSE)
      [] kind = "uv_over"    -> Mesh(ArrayLimit, 40000, TRUE, ArrayLimit + 1, <<>>, FALSE)
      [] OTHER               -> NoMesh

\* The k-th object of a scene, named "Ob" and the digit k, without a
\* parent, at location (k, 2, 3), of rotation k and scale (2, 2, 2).
ObjectOf(kind, k) ==
    [type |-> CASE kind = "empty" -> "EMPTY"
                [] kind \in {"light", "spot"} -> "LIGHT"
                [] kind = "camera" -> "CAMERA"
                [] OTHER -> "MESH",
     name |-> <<79, 98, 48 + k>>,
     spot |-> kind = "spot",
     mesh |-> MeshOf(kind),
     parent |-> <<>>,
     location |-> <<k, 2, 3>>,
     rotation |-> k,
     scale |-> <<2, 2, 2>>,
     animation_data |-> NoAnimation,
     data_animation_data |-> NoAnimation]

\* world is None, a world without animation_data, a world with
\* animation_data that has no action, and a world whose action has the
\* three fcurves of its color.
Worlds == {"none", "static", "animation_data", "color_curves"}

\* world.animation_data
WorldAnimation(world) ==
    CASE world = "animation_data" -> Animation(TRUE, FALSE, <<>>)
      [] world = "color_curves" ->
            Animation(TRUE, TRUE,
                      [i \in 1..3 |-> [data_path |-> "color", keyframe_points |-> <<0, TimeUnit>>]])
      [] OTHER -> NoAnimation

ScenePool ==
    { [objects |-> [k \in DOMAIN kinds |-> ObjectOf(kinds[k], k)],
       write_keyframe |-> wk, world |-> w] :
      kinds \in UNION {[1..n -> ObjectKinds] : n \in 0..MaxObjects},
      wk \in BOOLEAN, w \in Worlds }

NoLocals ==
    [primary |-> 0, object_info |-> 0, kfdata |-> 0,
     mesh_objects |-> <<>>, empty_objects |-> <<>>, light_objects |-> <<>>,
     camera_objects |-> <<>>, materialDict |-> <<>>, name_id |-> <<>>,
     k |-> 0, object_chunk |-> <<>>, handle |-> "none", wrote |-> FALSE, error |-> ""]

InitSave ==
    /\ ChunkIdle /\ NameIdle /\ UvIdle /\ TrackIdle /\ BuildIdle
    /\ scene \in ScenePool
    /\ pc = "begin"
    /\ loc = NoLocals
    /\ reports = <<>>
    /\ result = ""

\* The chunks of fr that the step from store old to store new did not touch.
StillFresh(old, new, fr) ==
    {c \in fr : new[c].variables = old[c].variables /\ new[c].subchunks = old[c].subchunks}

\* The chunk store and the name tables after a step.
Commit(store, names) ==
    /\ chunks' = store
    /\ fresh' = StillFresh(chunks, store, fresh)
    /\ name_unique' = names.unique
    /\ name_mapping' = names.mapping

\* A statement order that sizes the tree before its last two attachments.
FinalStepsSizeFirst == <<"size", "attach", "open", "write", "close", "clear", "return">>

\* The statements of save() after its loops, in the order of the source.
FinalSteps == <<"attach", "size", "open", "write", "close", "clear", "return">>

After(step) ==
    LET i == CHOOSE j \in DOMAIN FinalSteps : FinalSteps[j] = step
    IN  IF i = Len(FinalSteps) THEN "done" ELSE FinalSteps[i + 1]

\* The objects each loop of save() runs over.
LoopItems(l, loop) ==
    CASE loop = "mesh"   -> l.mesh_objects
      [] loop = "empty"  -> IF scene.write_keyframe THEN l.empty_objects ELSE <<>>
      [] loop = "light"  -> l.light_objects
      [] loop = "camera" -> l.camera_objects

\* Where control goes to: the first of the loops that has an object, else
\* the statements after the loops.
RECURSIVE FirstLoop(_, _)
FirstLoop(l, loops) ==
    IF loops = <<>> THEN [pc |-> Head(FinalSteps), k |-> 0]
    ELSE IF LoopItems(l, Head(loops)) # <<>> THEN [pc |-> Head(loops), k |-> 1]
         ELSE FirstLoop(l, Tail(loops))

Loops == <<"mesh", "empty", "light", "camera">>

\* Where control goes to after iteration l.k of a loop.
Advance(l, loop) ==
    IF l.k < Len(LoopItems(l, loop)) THEN [pc |-> loop, k |-> l.k + 1]
    ELSE LET i == CHOOSE j \in DOMAIN Loops : Loops[j] = loop
         IN  FirstLoop(l, SubSeq(Loops, i + 1, Len(Loops)))

\* The indices of the objects of one type, in scene order.
OfType(objects, type) ==
    LET Test(i) == objects[i].type = type
    IN  SelectSeq([i \in DOMAIN objects |-> i], Test)

\* The (material, image) keys a mesh puts into materialDict; every polygon
\* has material index 0 and no material has an image.
MaterialKeys(mesh) ==
    IF mesh.uv
    THEN IF mesh.ntris = 0 THEN <<>>
         ELSE <<IF mesh.materials = <<>> THEN NoMaterial ELSE mesh.materials[1]>>
    ELSE mesh.materials

\* A materialDict that takes every key it is given, seen before or not.
SetDefaultAlways(dict, keys, i) == dict \o SubSeq(keys, i, Len(keys))

\* materialDict.setdefault(key, ...) for keys[i], keys[i + 1], ...
RECURSIVE SetDefault(_, _, _)
SetDefault(dict, keys, i) ==
    IF i > Len(keys) THEN dict
    ELSE SetDefault(IF keys[i] \in Range(dict) THEN dict ELSE Append(dict, keys[i]),
                    keys, i + 1)

\* object_info.add_subchunk(make_material_chunk(...)) for keys[i],
\* keys[i + 1], ...
RECURSIVE AddMaterials(_, _, _, _, _)
AddMaterials(store, nm, keys, object_info, i) ==
    IF i > Len(keys) THEN store
    ELSE AddMaterials(Attach(store, object_info, MakeMaterialChunk(nm, keys[i])),
                      nm, keys, object_info, i + 1)

\* name_id[ob.name] = len(name_id) for names[i], names[i + 1], ...
RECURSIVE NameIds(_, _, _)
NameIds(name_id, names, i) ==
    IF i > Len(names) THEN name_id
    ELSE NameIds(NewNameId(name_id, names[i]), names, i + 1)

\* The variables no statement of save() assigns.
saveFrame ==
    <<ret, name_ret, returned, uvVars, scene, trackVars, buildVars>>

\* primary with the version.
PrimaryTree == T(PRIMARY, <<>>, <<T(VERSION, <<Uint3ds(3)>>, <<>>)>>)

\* object_info with its mesh version, master scale and ambient light.
ObjectInfoTree ==
    T(OBJECTINFO, <<>>,
      <<T(MESHVERSION, <<Uint3ds(3)>>, <<>>), T(MASTERSCALE, <<Prim("float")>>, <<>>)>>
      \o (IF scene.world # "none"
          THEN <<T(AMBIENTLIGHT, <<>>, <<T(RGB, <<Prim("float_color")>>, <<>>)>>)>>
          ELSE <<>>))

\* primary, object_info, kfdata.
SaveBegin ==
    /\ pc = "begin"
    /\ \E primary \in {Alloc(chunks, PrimaryTree)} :
       \E object_info \in {Alloc(primary, ObjectInfoTree)} :
       \E kfdata \in {IF scene.write_keyframe
                      THEN Alloc(object_info, MakeKfdata(WorldAnimation(scene.world)))
                      ELSE object_info} :
          /\ Commit(kfdata, SaneNames(<<>>))
          /\ loc' = [loc EXCEPT !.primary = Len(primary),
                                !.object_info = Len(object_info),
                                !.kfdata = IF scene.write_keyframe THEN Len(kfdata) ELSE 0]
    /\ pc' = "collect"
    /\ UNCHANGED <<file, reports, result, saveFrame>>

\* The names of the objects that get an id before the loops, in order.
NamedObjects ==
    [j \in DOMAIN (OfType(scene.objects, "MESH") \o OfType(scene.objects, "EMPTY")) |->
        scene.objects[(OfType(scene.objects, "MESH")
                       \o OfType(scene.objects, "EMPTY"))[j]].name]

\* The locals save() sets before its loops.
Collected ==
    [loc EXCEPT !.mesh_objects = OfType(scene.objects, "MESH"),
                !.empty_objects = OfType(scene.objects, "EMPTY"),
                !.light_objects = OfType(scene.objects, "LIGHT"),
                !.camera_objects = OfType(scene.objects, "CAMERA"),
                !.materialDict =
                    SetDefault(<<>>, FlattenSeq([i \in DOMAIN scene.objects |->
                        IF scene.objects[i].type = "MESH"
                        THEN MaterialKeys(scene.objects[i].mesh) ELSE <<>>]), 1),
                !.name_id = NameIds(<<>>, NamedObjects, 1),
                !.object_chunk = [i \in DOMAIN scene.objects |-> 0]]

GoTo(l, to) == loc' = [l EXCEPT !.k = to.k] /\ pc' = to.pc

\* The lists of objects, materialDict and the material chunks, name_id.
SaveCollect ==
    /\ pc = "collect"
    /\ \E l \in {Collected} :
       \E names \in {SaneNames([i \in DOMAIN l.materialDict |-> NameStr(l.materialDict[i])])} :
       \E store \in {AddMaterials(chunks, names.mapping, l.materialDict, l.object_info, 1)} :
          /\ Commit(store, names)
          /\ GoTo(l, FirstLoop(l, Loops))
    /\ UNCHANGED <<file, reports, result, saveFrame>>

\* The OBJECT chunk of a mesh object.
MeshObjectTree(nm, ob) ==
    T(OBJECT, <<String3ds(nm[ob.name])>>, <<MakeMeshChunk(nm, ob.mesh)>>)

\* One iteration of the loop over mesh_objects: the object chunk, attached
\* if it validates and reported if not, and the node of the object.
SaveMesh ==
    /\ pc = "mesh"
    /\ \E i \in {loc.mesh_objects[loc.k]} :
       \E ob \in {scene.objects[i]} :
       \E names \in {SaneNames(<<ob.name>> \o FacesNames(ob.mesh))} :
       \E store \in {Alloc(chunks, MeshObjectTree(names.mapping, ob))} :
       \E valid \in {ChunkValidate(store, Len(store))} :
       \E attached \in {IF valid THEN AttachTop(store, loc.object_info) ELSE store} :
       \E node \in {IF scene.write_keyframe
                    THEN Attach(attached, loc.kfdata,
                                MakeObjectNode(names.mapping, ob, loc.name_id))
                    ELSE attached} :
          /\ Commit(node, names)
          /\ reports' = IF valid THEN reports ELSE Append(reports, "WARNING")
          /\ GoTo([loc EXCEPT !.object_chunk[i] = Len(store)], Advance(loc, "mesh"))
    /\ UNCHANGED <<file, result, saveFrame>>

\* One iteration of the loop over empty_objects, run if write_keyframe.
SaveEmpty ==
    /\ pc = "empty"
    /\ \E ob \in {scene.objects[loc.empty_objects[loc.k]]} :
       \E names \in {SaneNames(<<ob.name>>)} :
       \E node \in {Attach(chunks, loc.kfdata,
                           MakeObjectNode(names.mapping, ob, loc.name_id))} :
          /\ Commit(node, names)
          /\ GoTo(loc, Advance(loc, "empty"))
    /\ UNCHANGED <<file, reports, result, saveFrame>>

\* The OBJECT chunk of a light.
LightObjectTree(nm, ob) ==
    T(OBJECT, <<String3ds(nm[ob.name])>>,
      <<T(OBJECT_LIGHT, <<Prim("point_3d")>>,
          <<T(RGB, <<Prim("float_color")>>, <<>>),
            T(LIGHT_MULTIPLIER, <<Prim("float")>>, <<>>)>>
          \o (IF ob.spot
              THEN <<T(LIGHT_SPOTLIGHT, <<Prim("point_3d"), Prim("float"), Prim("float")>>,
                       <<T(LIGHT_SPOT_ROLL, <<Prim("float")>>, <<>>)>>)>>
              ELSE <<>>))>>)

\* The OBJECT chunk of a camera.
CameraObjectTree(nm, ob) ==
    T(OBJECT, <<String3ds(nm[ob.name])>>,
      <<T(OBJECT_CAMERA,
          <<Prim("point_3d"), Prim("point_3d"), Prim("float"), Prim("float")>>, <<>>)>>)

\* One iteration over a light or a camera, whose object chunk is tree:
\* the chunk is attached, and if write_keyframe its node, and its target
\* node if target.
SaveView(loop, i, ob, names, tree, target) ==
    \E store \in {Alloc(chunks, tree)} :
    \E attached \in {AttachTop(store, loc.object_info)} :
    \E name_id \in {NewNameId(loc.name_id, ob.name)} :
    \E node \in {IF scene.write_keyframe
                 THEN Attach(attached, loc.kfdata,
                             MakeObjectNode(names.mapping, ob, name_id))
                 ELSE attached} :
    \E target_id \in {TargetNameId(name_id, ob.name)} :
    \E target_node \in {IF scene.write_keyframe /\ target
                        THEN Attach(node, loc.kfdata,
                                    MakeTargetNode(names.mapping, ob, target_id))
                        ELSE node} :
       /\ Commit(target_node, names)
       /\ GoTo([loc EXCEPT !.object_chunk[i] = Len(store),
                           !.name_id = IF ~scene.write_keyframe THEN @
                                       ELSE IF target THEN target_id
                                       ELSE name_id],
               Advance(loc, loop))

\* One iteration of the loop over light_objects.
SaveLight ==
    /\ pc = "light"
    /\ \E i \in {loc.light_objects[loc.k]} :
       \E ob \in {scene.objects[i]} :
       \E names \in {SaneNames(<<ob.name>>)} :
          SaveView("light", i, ob, names, LightObjectTree(names.mapping, ob), ob.spot)
    /\ UNCHANGED <<file, reports, result, saveFrame>>

\* One iteration of the loop over camera_objects.
SaveCamera ==
    /\ pc = "camera"
    /\ \E i \in {loc.camera_objects[loc.k]} :
       \E ob \in {scene.objects[i]} :
       \E names \in {SaneNames(<<ob.name>>)} :
          SaveView("camera", i, ob, names, CameraObjectTree(names.mapping, ob), TRUE)
    /\ UNCHANGED <<file, reports, result, saveFrame>>

\* primary.add_subchunk(object_info) and, if write_keyframe, of kfdata.
SaveAttach ==
    /\ pc = "attach"
    /\ Commit(IF scene.write_keyframe
              THEN ChunkAddSubchunk(ChunkAddSubchunk(chunks, loc.primary, loc.object_info),
                                    loc.primary, loc.kfdata)
              ELSE ChunkAddSubchunk(chunks, loc.primary, loc.object_info),
              SaneNames(<<>>))
    /\ pc' = After("attach")
    /\ UNCHANGED <<file, loc, reports, result, saveFrame>>

\* primary.get_size()
SaveGetSize ==
    /\ pc = "size"
    /\ chunks' = ChunkGetSize(chunks, loc.primary)
    /\ fresh' = fresh \cup Subtree(chunks, loc.primary)
    /\ pc' = After("size")
    /\ UNCHANGED <<file, name_unique, name_mapping, loc, reports, result, saveFrame>>

\* file = open(filepath, 'wb'): the file, or an OSError that ends save().
SaveOpen ==
    /\ pc = "open"
    /\ \/ /\ loc' = [loc EXCEPT !.handle = "open"]
          /\ pc' = After("open")
       \/ /\ loc' = [loc EXCEPT !.error = "OSError"]
          /\ pc' = "raised"
    /\ UNCHANGED <<chunks, fresh, file, name_unique, name_mapping, reports, result, saveFrame>>

\* primary.write(file): all of it, or what precedes a struct.error.
SaveWrite ==
    /\ pc = "write"
    /\ file' = UntilFailure(ChunkWrite(chunks, loc.primary))
    /\ IF Len(file') = Len(ChunkWrite(chunks, loc.primary))
       THEN /\ loc' = [loc EXCEPT !.wrote = TRUE]
            /\ pc' = After("write")
       ELSE /\ loc' = [loc EXCEPT !.error = "struct.error"]
            /\ pc' = "raised"
    /\ UNCHANGED <<chunks, fresh, name_unique, name_mapping, reports, result, saveFrame>>

\* file.close()
SaveClose ==
    /\ pc = "close"
    /\ loc' = [loc EXCEPT !.handle = "closed"]
    /\ pc' = After("close")
    /\ UNCHANGED <<chunks, fresh, file, name_unique, name_mapping, reports, result, saveFrame>>

\* del name_unique[:]; name_mapping.clear()
SaveClear ==
    /\ pc = "clear"
    /\ name_unique' = <<>>
    /\ name_mapping' = <<>>
    /\ pc' = After("clear")
    /\ UNCHANGED <<chunks, fresh, file, loc, reports, result, saveFrame>>

\* return {'FINISHED'}
SaveReturn ==
    /\ pc = "return"
    /\ result' = "FINISHED"
    /\ pc' = After("return")
    /\ UNCHANGED <<chunks, fresh, file, name_unique, name_mapping, loc, reports, saveFrame>>

NextSave ==
    \/ SaveBegin
    \/ SaveCollect
    \/ SaveMesh
    \/ SaveEmpty
    \/ SaveLight
    \/ SaveCamera
    \/ SaveAttach
    \/ SaveGetSize
    \/ SaveOpen
    \/ SaveWrite
    \/ SaveClose
    \/ SaveClear
    \/ SaveReturn

SpecSave == InitSave /\ [][NextSave]_vars

-----------------------------------------------------------------------------
(* Claims about save(). *)

\* C3: save() calls get_size() on the root after the last mutation of the
\* tree and before write(): when write() starts and ever after, every chunk
\* under primary still has the size get_size() stored in it after the chunk
\* was last changed, and every size field in the file is the size of the
\* tree as it was written.
C3_SizedAfterLastMutation ==
    (pc = "write" \/ (pc \in {"close", "clear", "return", "done"} /\ loc.wrote)) =>
        /\ Subtree(chunks, loc.primary) \subseteq fresh
        /\ \A i \in DOMAIN file :
              file[i].part = "size" => file[i].value = ChunkSizeValue(chunks, file[i].chunk)

\* save() has returned for a scene with keyframes and an exported object.
C3_Witness ==
    /\ pc = "done"
    /\ loc.wrote
    /\ loc.kfdata \in Range(chunks[loc.primary].subchunks)
    /\ \E i \in DOMAIN loc.object_chunk :
          loc.object_chunk[i] \in Range(chunks[loc.object_info].subchunks)
    /\ \E i \in DOMAIN file : file[i].part = "size" /\ file[i].chunk = loc.primary

\* A mesh whose arrays all fit the 16 bit count of the format.
MeshFits(mesh) == mesh.ntris <= ArrayLimit /\ VertArrayLen(mesh) <= ArrayLimit

\* The OBJECT chunk made for object i is a subchunk of object_info.
Attached(i) == loc.object_chunk[i] \in Range(chunks[loc.object_info].subchunks)

\* The loop of object i has made its OBJECT chunk.
Processed(i) == loc.object_chunk[i] # 0

\* C5: the OBJECT chunk of a mesh is attached exactly if it validates, that
\* is if the mesh has no array past 65535 items; each mesh left out is
\* reported with one warning; the export goes on: lights and cameras are
\* attached, nothing but a failing open() ends save() early, and on return
\* the whole tree under primary is in the file and the result is FINISHED.
C5_OversizedMeshesOmitted ==
    pc \in {"mesh", "empty", "light", "camera", "raised", "done"} \cup Range(FinalSteps) =>
        LET objects == scene.objects
            meshes == {i \in DOMAIN objects : objects[i].type = "MESH" /\ Processed(i)}
        IN  /\ \A i \in meshes : Attached(i) <=> ChunkValidate(chunks, loc.object_chunk[i])
            /\ \A i \in meshes : Attached(i) <=> MeshFits(objects[i].mesh)
            /\ Len(reports) = Cardinality({i \in meshes : ~MeshFits(objects[i].mesh)})
            /\ \A r \in DOMAIN reports : reports[r] = "WARNING"
            /\ \A i \in DOMAIN objects :
                  objects[i].type \in {"LIGHT", "CAMERA"} /\ Processed(i) => Attached(i)
            /\ pc = "raised" => loc.error = "OSError"
            /\ pc = "done" =>
                  /\ result = "FINISHED"
                  /\ loc.wrote
                  /\ loc.object_info \in Range(chunks[loc.primary].subchunks)
                  /\ file = ChunkWrite(chunks, loc.primary)
                  /\ \A i \in DOMAIN objects :
                        objects[i].type # "EMPTY" =>
                            /\ Processed(i)
                            /\ Attached(i) =>
                                  \E j \in DOMAIN file : file[j].chunk = loc.object_chunk[i]

\* save() has returned for a scene of one mesh that was left out and one
\* object that was exported.
C5_Witness ==
    /\ pc = "done"
    /\ result = "FINISHED"
    /\ Len(reports) = 1
    /\ \E i, j \in DOMAIN scene.objects :
          /\ scene.objects[i].type = "MESH"
          /\ ~Attached(i)
          /\ ~MeshFits(scene.objects[i].mesh)
          /\ Attached(j)
          /\ \E s \in DOMAIN file : file[s].chunk = loc.object_chunk[j]

\* C12: when save() has ended, by its return or by an exception of open or
\* write, name_unique and name_mapping are empty.
C12_NamesClearedAtEnd ==
    pc \in {"done", "raised"} => name_unique = <<>> /\ DOMAIN name_mapping = {}

\* C15: the node ids in the OBJECT_NODE_ID chunks of an export with
\* keyframe data are pairwise distinct; a target node has another id than
\* the camera or light it belongs to.
C15_NodeIdsDistinct ==
    pc # "idle" =>
        \A c, d \in DOMAIN chunks :
            (c # d /\ chunks[c].ID = OBJECT_NODE_ID /\ chunks[d].ID = OBJECT_NODE_ID)
            => chunks[c].variables[1].value # chunks[d].variables[1].value

\* The MATERIAL chunks of object_info.
MaterialChunks ==
    {c \in Range(chunks[loc.object_info].subchunks) : chunks[c].ID = MATERIAL}

\* The name in the MATNAME chunk of a MATERIAL chunk.
MaterialNameOf(c) == chunks[chunks[c].subchunks[1]].variables[1].value

\* The (material, image) keys of the mesh objects among is.
KeysOver(is) == UNION {Range(MaterialKeys(scene.objects[i].mesh)) : i \in is}

\* Each key of ks has one MATERIAL chunk and there is no other.
OneChunkPerKey(ks) ==
    /\ Cardinality(MaterialChunks) = Cardinality(ks)
    /\ \A k \in ks : Cardinality({c \in MaterialChunks : MaterialNameOf(c) = NameStr(k)}) = 1

\* C16 as stated: object_info holds one MATERIAL chunk per key of the
\* meshes that are exported, those whose OBJECT chunk is in the file.
C16_OnePerKeyOfExportedMeshes ==
    pc = "done" =>
        OneChunkPerKey(KeysOver({i \in DOMAIN scene.objects :
                                    scene.objects[i].type = "MESH" /\ Attached(i)}))

\* C16 amended: once the material chunks are made, object_info holds one
\* MATERIAL chunk per key of the meshes collected for the export, whether
\* or not the mesh is left out later, however many meshes have the key.
C16_OnePerKeyOfCollectedMeshes ==
    pc \in {"mesh", "empty", "light", "camera", "raised", "done"} \cup Range(FinalSteps) =>
        OneChunkPerKey(KeysOver({i \in DOMAIN scene.objects : scene.objects[i].type = "MESH"}))

\* C16 witness: save() has returned for two meshes of the same key, one
\* with two polygons of that key, and for a mesh that was left out.
C16_Witness ==
    /\ pc = "done"
    /\ \E i, j \in DOMAIN scene.objects :
          /\ i # j
          /\ scene.objects[i].type = "MESH" /\ scene.objects[j].type = "MESH"
          /\ Attached(i) /\ Attached(j)
          /\ scene.objects[i].mesh.uv /\ scene.objects[i].mesh.ntris = 2
          /\ MaterialKeys(scene.objects[i].mesh) = MaterialKeys(scene.objects[j].mesh)
          /\ Cardinality(MaterialChunks) = 1

\* The tags of the children of chunk c, in order.
ChildTags(c) == [i \in DOMAIN chunks[c].subchunks |-> chunks[chunks[c].subchunks[i]].ID]

\* C17: once object_info and kfdata are attached, the root is a PRIMARY
\* chunk whose children are VERSION, OBJECTINFO and, exactly if
\* write_keyframe is set, KFDATA, in this order; in OBJECTINFO no OBJECT
\* chunk comes before a MATERIAL chunk; and the file written starts with
\* the root.
C17_RootLayout ==
    pc \in (Range(FinalSteps) \ {"attach"}) \cup {"raised", "done"} =>
        /\ chunks[loc.primary].ID = PRIMARY
        /\ ChildTags(loc.primary) =
              <<VERSION, OBJECTINFO>> \o (IF scene.write_keyframe THEN <<KFDATA>> ELSE <<>>)
        /\ chunks[loc.primary].subchunks[2] = loc.object_info
        /\ \A i, j \in DOMAIN ChildTags(loc.object_info) :
              ChildTags(loc.object_info)[i] = MATERIAL /\ ChildTags(loc.object_info)[j] = OBJECT
                  => i < j
        /\ loc.wrote => file[1] = Segment(loc.primary, "ID", 0, PRIMARY, 2, FALSE)

\* C17 witness: save() has written a root with KFDATA whose OBJECTINFO has
\* a MATERIAL chunk and two OBJECT chunks.
C17_Witness ==
    /\ pc = "done"
    /\ loc.wrote
    /\ scene.write_keyframe
    /\ Len(chunks[loc.primary].subchunks) = 3
    /\ Cardinality(MaterialChunks) >= 1
    /\ Cardinality({i \in DOMAIN ChildTags(loc.object_info) :
                       ChildTags(loc.object_info)[i] = OBJECT}) >= 2

\* C24: with write_keyframe, kfdata has an AMBIENT_NODE_TAG node only if
\* an fcurve drives the color of the world; and object_info has the
\* AMBIENTLIGHT chunk whenever there is a world.
C24_AmbientNodeOnlyIfColorAnimated ==
    pc \notin {"idle", "begin"} =>
        /\ (scene.world # "none") => AMBIENTLIGHT \in Range(ChildTags(loc.object_info))
        /\ (scene.write_keyframe /\ AMBIENT_NODE_TAG \in Range(ChildTags(loc.kfdata)))
               => CurveCount(WorldAnimation(scene.world).fcurves, "color") > 0

\* The node ids of the OBJECT_NODE_TAG nodes of kfdata.
ObjectNodeIds ==
    { chunks[chunks[c].subchunks[1]].variables[1].value[1] :
        c \in {d \in Range(chunks[loc.kfdata].subchunks) : chunks[d].ID = OBJECT_NODE_TAG} }

\* C30: with write_keyframe, every node of kfdata made for a mesh object
\* belongs to an object whose OBJECT chunk is in object_info: a mesh left
\* out because its chunk does not validate has no node.
C30_NodeOnlyForExportedMesh ==
    (pc \notin {"idle", "begin"} /\ scene.write_keyframe) =>
        \A i \in Range(loc.mesh_objects) :
            (/\ scene.objects[i].name \in DOMAIN loc.name_id
             /\ loc.name_id[scene.objects[i].name] \in ObjectNodeIds)
            => Attached(i)

-----------------------------------------------------------------------------
(* make_mesh_chunk applied to a mesh without materials and smoothing. *)

\* A _3ds_array after one add per item of values.
ArrayOf(item, values) ==
    [ArrayAdd(ArrayNew, Prim(item), Len(values)) EXCEPT !.value = values]

\* extract_triangles: per loop triangle a tri_wrapper of its vertices, with
\* the uv keys of its corners if the mesh has a UV layer; a triangle whose
\* third vertex is vertex 0 is turned so that vertex 0 comes first.
ExtractTriangles(m) ==
    [i \in DOMAIN m.loop_triangles |->
        LET f_v == m.loop_triangles[i].vertices
            f_uv == m.loop_triangles[i].uvs
        IN  IF f_v[3] = 0
            THEN TriWrapper(<<f_v[3], f_v[1], f_v[2]>>,
                            IF m.uv_layers THEN <<f_uv[3], f_uv[1], f_uv[2]>> ELSE <<>>)
            ELSE TriWrapper(f_v, IF m.uv_layers THEN f_uv ELSE <<>>)]

\* A make_mesh_chunk that converts face uvs whether there is a UV layer or
\* not, every corner of a mesh without one at the same uv.
MeshArraysAlwaysConverted(m) ==
    [vert_array |-> RemoveFaceUV(m.vertices, ExtractTriangles([m EXCEPT !.uv_layers = TRUE])).vert_array,
     uv_array |-> <<RemoveFaceUV(m.vertices, ExtractTriangles([m EXCEPT !.uv_layers = TRUE])).uv_array>>,
     tri_list |-> RemoveFaceUV(m.vertices, ExtractTriangles([m EXCEPT !.uv_layers = TRUE])).tri_list]

\* The vertex array, the uv array (in a one element sequence, <<>> for
\* None) and the triangles make_mesh_chunk goes on with.
MeshArrays(m) ==
    IF m.uv_layers
    THEN [vert_array |-> RemoveFaceUV(m.vertices, ExtractTriangles(m)).vert_array,
          uv_array |-> <<RemoveFaceUV(m.vertices, ExtractTriangles(m)).uv_array>>,
          tri_list |-> RemoveFaceUV(m.vertices, ExtractTriangles(m)).tri_list]
    ELSE [vert_array |-> m.vertices, uv_array |-> <<>>, tri_list |-> ExtractTriangles(m)]

\* make_mesh_chunk: the vertices, the faces, the uvs if there is a uv array
\* (an array object is true, None is not), the matrix.
MeshChunkTree(m) ==
    T(OBJECT_MESH, <<>>,
      <<T(OBJECT_VERTICES, <<ArrayOf("point_3d", MeshArrays(m).vert_array)>>, <<>>),
        T(OBJECT_FACES,
          <<ArrayOf("face", [i \in DOMAIN MeshArrays(m).tri_list |->
                                MeshArrays(m).tri_list[i].vertex_index])>>, <<>>)>>
      \o (IF MeshArrays(m).uv_array # <<>>
          THEN <<T(OBJECT_UV, <<ArrayOf("point_uv", MeshArrays(m).uv_array[1])>>, <<>>)>>
          ELSE <<>>)
      \o <<T(OBJECT_TRANS_MATRIX, [i \in 1..12 |-> Prim("float")], <<>>)>>)

\* The loop triangles of a mesh: in order, with vertex 0 last, one that
\* leaves vertex 1 out; all corners at one uv, or the first at another.
FacePool ==
    { [vertices |-> v, uvs |-> uv] :
        v \in {<<0, 1, 2>>, <<1, 2, 0>>, <<0, 2, 3>>, <<2, 3, 0>>},
        uv \in {[i \in 1..3 |-> <<0, 0>>], <<<<500000, 0>>, <<0, 0>>, <<0, 0>>>>} }

MeshPool ==
    { m \in { MeshData(vertices, loop_triangles, uv_layers) :
                vertices \in VertPool,
                loop_triangles \in UNION {[1..n -> FacePool] : n \in 0..MaxTris},
                uv_layers \in BOOLEAN } :
        \A i \in DOMAIN m.loop_triangles :
            /\ \A k \in 1..3 : m.loop_triangles[i].vertices[k] < Len(m.vertices)
            /\ ~m.uv_layers => m.loop_triangles[i].uvs = [k \in 1..3 |-> <<0, 0>>] }

InitMesh ==
    /\ ChunkIdle /\ NameIdle /\ SaveIdle /\ TrackIdle /\ BuildIdle
    /\ verts = <<>> /\ tri_list = <<>> /\ tri_in = <<>> /\ uv_out = <<>> /\ uv_pc = "idle"
    /\ mesh_arg \in MeshPool
    /\ mesh_ret = <<>>

CallMakeMeshChunk ==
    /\ mesh_ret = <<>>
    /\ mesh_ret' = <<MeshChunkTree(mesh_arg)>>
    /\ UNCHANGED <<verts, tri_list, tri_in, uv_out, uv_pc, mesh_arg,
                   chunkVars, nameVars, saveVars, trackVars, buildVars>>

SpecMesh == InitMesh /\ [][CallMakeMeshChunk]_vars

\* The tags of the subchunks of the mesh chunk returned.
MeshChildTags == [i \in DOMAIN mesh_ret[1].kids |-> mesh_ret[1].kids[i].ID]

\* The vertex array has the vertices of the mesh, one entry each and in
\* their order, there is one face per loop triangle, and the mesh chunk has
\* no OBJECT_UV subchunk.
StraightCopy ==
    /\ mesh_ret[1].kids[1].ID = OBJECT_VERTICES
    /\ mesh_ret[1].kids[1].variables[1].value = mesh_arg.vertices
    /\ mesh_ret[1].kids[1].variables[1].n = Len(mesh_arg.vertices)
    /\ mesh_ret[1].kids[2].ID = OBJECT_FACES
    /\ mesh_ret[1].kids[2].variables[1].n = Len(mesh_arg.loop_triangles)
    /\ \A i \in DOMAIN MeshChildTags : MeshChildTags[i] # OBJECT_UV

\* The vertex indices of face i of the mesh chunk.
FaceOf(i) == mesh_ret[1].kids[2].variables[1].value[i]

\* C19 as stated: for a mesh without a UV layer the vertex array is a
\* straight copy, every face has the vertex indices of its triangle
\* unchanged, and there is no OBJECT_UV subchunk.
C19_IndicesUnchanged ==
    (Len(mesh_ret) = 1 /\ ~mesh_arg.uv_layers) =>
        /\ StraightCopy
        /\ \A i \in DOMAIN mesh_arg.loop_triangles :
              FaceOf(i) = mesh_arg.loop_triangles[i].vertices

\* C19 amended: for a mesh without a UV layer the vertex array is a
\* straight copy, there is no OBJECT_UV subchunk, and every face has the
\* three vertex indices of its triangle, none rewritten: in the order of
\* the triangle, or starting with vertex 0 if that is its third vertex.
C19_IndicesNotRewritten ==
    (Len(mesh_ret) = 1 /\ ~mesh_arg.uv_layers) =>
        /\ StraightCopy
        /\ \A i \in DOMAIN mesh_arg.loop_triangles :
              LET f_v == mesh_arg.loop_triangles[i].vertices
              IN  FaceOf(i) = (IF f_v[3] = 0 THEN <<f_v[3], f_v[1], f_v[2]>> ELSE f_v)

\* C19 witness: the chunk of a mesh without a UV layer, with a vertex that
\* no triangle uses and two triangles over the same vertices, the second
\* with vertex 0 as its third.
C19_Witness ==
    /\ Len(mesh_ret) = 1
    /\ ~mesh_arg.uv_layers
    /\ Len(mesh_arg.vertices) = 4
    /\ Len(mesh_arg.loop_triangles) = 2
    /\ mesh_arg.loop_triangles[1].vertices = <<0, 1, 2>>
    /\ mesh_arg.loop_triangles[2].vertices = <<1, 2, 0>>
    /\ FaceOf(2) = <<0, 1, 2>>

-----------------------------------------------------------------------------
(* The three builders of a track applied to animation data. *)

\* Keyframe times of an fcurve: whole frames with and without frame 0,
\* frames 1 and 1.5, frame 0.5 alone, no keyframe, and two keyframes at
\* frame 1.
KeyPool ==
    { <<>>, <<0, 2 * TimeUnit>>, <<TimeUnit, 2 * TimeUnit>>, <<TimeUnit, TimeUnit + 1>>, <<1>>,
      <<TimeUnit, TimeUnit>> }

\* animation_data: None, without an action, and with an action of no
\* fcurve, of one fcurve, of an fcurve after one of another channel, and of
\* the two or three fcurves of the components of one channel.
AnimationPool ==
    { NoAnimation, Animation(TRUE, FALSE, <<>>), Animation(TRUE, TRUE, <<>>),
      Animation(TRUE, TRUE, <<[data_path |-> "scale", keyframe_points |-> <<TimeUnit>>],
                              [data_path |-> "location", keyframe_points |-> <<2 * TimeUnit>>]>>) }
    \cup { Animation(TRUE, TRUE, <<[data_path |-> p, keyframe_points |-> k]>>) :
           p \in {"location", "color", "lens"}, k \in KeyPool }
    \cup { Animation(TRUE, TRUE, [i \in 1..3 |-> [data_path |-> "location", keyframe_points |-> k]]) :
           k \in KeyPool }
    \cup { Animation(TRUE, TRUE, [i \in 1..n |-> [data_path |-> p, keyframe_points |-> <<TimeUnit>>]]) :
           p \in {"rotation_euler", "scale", "color"}, n \in {2, 3} }

\* The fcurves of the nine components of location, rotation_euler and
\* scale, each with keyframes at frames 0 and 1.
TransformCurves ==
    [i \in 1..9 |->
        [data_path |-> <<"location", "rotation_euler", "scale">>[((i - 1) \div 3) + 1],
         keyframe_points |-> <<0, TimeUnit>>]]

\* animation_data of the objects make_object_node is called with: None, an
\* action of the nine curves, and an action of the three location curves.
NodeAnimationPool ==
    { NoAnimation, Animation(TRUE, TRUE, TransformCurves),
      Animation(TRUE, TRUE, SubSeq(TransformCurves, 1, 3)) }

\* ob.parent: None, or the object "Ob1" at location (1, 1, 1).
ParentPool ==
    { <<>>, <<[name |-> ObjectOf("empty", 1).name, location |-> <<1, 1, 1>>, rotation |-> 1]>> }

\* name_id: of the object alone, and of its parent and the object.
NameIdPool ==
    { NewNameId(<<>>, ObjectOf("empty", 2).name),
      NewNameId(NewNameId(<<>>, ObjectOf("empty", 1).name), ObjectOf("empty", 2).name) }

\* animation_data of the cameras and spot lights both nodes are made of:
\* None, an action without fcurves, actions of the three location and the
\* three rotation_euler curves with each keyframe times, and an action of
\* the three location curves.
ViewAnimationPool ==
    { NoAnimation, Animation(TRUE, TRUE, <<>>),
      Animation(TRUE, TRUE, SubSeq(TransformCurves, 1, 3)) }
    \cup { Animation(TRUE, TRUE,
                     [i \in 1..6 |-> [TransformCurves[i] EXCEPT !.keyframe_points = k]]) :
           k \in KeyPool }

\* The calls: make_track_chunk with each ID, make_target_node for a camera
\* and a spot light, make_ambient_node for a world with animation_data,
\* make_object_node for a mesh, an empty, a camera and a light of each
\* parent and name_id, and the two nodes save() makes of a camera or a
\* spot light.
TrackCalls ==
    { [fn |-> "make_track_chunk", ID |-> id,
       ob |-> [ObjectOf("spot", 1) EXCEPT !.animation_data = a, !.data_animation_data = d]] :
      id \in { POS_TRACK_TAG, ROT_TRACK_TAG, SCL_TRACK_TAG, ROLL_TRACK_TAG,
               COL_TRACK_TAG, FOV_TRACK_TAG, HOTSPOT_TRACK_TAG, FALLOFF_TRACK_TAG },
      a \in AnimationPool, d \in AnimationPool }
    \cup { [fn |-> "make_target_node", ID |-> POS_TRACK_TAG,
            ob |-> [ObjectOf(kind, 1) EXCEPT !.animation_data = a]] :
           kind \in {"camera", "spot"}, a \in AnimationPool }
    \cup { [fn |-> "make_ambient_node", ID |-> COL_TRACK_TAG,
            ob |-> [ObjectOf("empty", 1) EXCEPT !.type = "WORLD", !.animation_data = a]] :
           a \in AnimationPool \ {NoAnimation} }
    \cup { [fn |-> "view_nodes", ID |-> POS_TRACK_TAG,
            ob |-> [ObjectOf(kind, 1) EXCEPT !.animation_data = a]] :
           kind \in {"camera", "spot"}, a \in ViewAnimationPool }
    \cup { [fn |-> "make_object_node", ID |-> POS_TRACK_TAG,
            ob |-> [ObjectOf(kind, 2) EXCEPT !.parent = p, !.animation_data = a],
            name_id |-> id] :
           kind \in {"uv", "empty", "camera", "light"}, p \in ParentPool,
           a \in NodeAnimationPool, id \in NameIdPool }

\* The animation data the call looks at.
AnimationOf(call) ==
    IF call.fn = "make_track_chunk"
       /\ call.ID \in {COL_TRACK_TAG, FOV_TRACK_TAG, HOTSPOT_TRACK_TAG, FALLOFF_TRACK_TAG}
    THEN call.ob.data_animation_data
    ELSE call.ob.animation_data

InitTrack ==
    /\ ChunkIdle /\ NameIdle /\ UvIdle /\ SaveIdle /\ BuildIdle
    /\ track_args \in TrackCalls
    /\ track_ret = <<>>
    /\ track_err = ""

\* What a call leaves: the chunk returned, or the expression that raised.
Outcome(raises, chunk) ==
    /\ track_err' = raises
    /\ track_ret' = IF raises = "" THEN <<chunk>> ELSE <<>>

CallMakeTrackChunk ==
    /\ track_ret = <<>> /\ track_err = ""
    /\ track_args.fn = "make_track_chunk"
    /\ Outcome(TrackChunkRaises(track_args.ID, AnimationOf(track_args)),
               MakeTrackChunk(track_args.ID, track_args.ob, track_args.ob.location,
                              <<track_args.ob.rotation>>, track_args.ob.scale))
    /\ UNCHANGED <<track_args, chunkVars, nameVars, uvVars, saveVars, buildVars>>

CallMakeTargetNode ==
    /\ track_ret = <<>> /\ track_err = ""
    /\ track_args.fn = "make_target_node"
    /\ \E names \in {SaneNames(<<track_args.ob.name>>)} :
          /\ Outcome(TargetNodeRaises(track_args.ob.animation_data),
                     MakeTargetNode(names.mapping, track_args.ob,
                                    TargetNameId(NewNameId(<<>>, track_args.ob.name),
                                                 track_args.ob.name)))
          /\ name_unique' = names.unique
          /\ name_mapping' = names.mapping
    /\ UNCHANGED <<track_args, chunkVars, name_ret, returned, uvVars, saveVars, buildVars>>

CallMakeAmbientNode ==
    /\ track_ret = <<>> /\ track_err = ""
    /\ track_args.fn = "make_ambient_node"
    /\ Outcome(AmbientNodeRaises(track_args.ob.animation_data),
               MakeAmbientNode(track_args.ob.animation_data))
    /\ UNCHANGED <<track_args, chunkVars, nameVars, uvVars, saveVars, buildVars>>

\* make_object_node and the sane_name calls it makes: of the name of the
\* object in the header, if not an empty, of the name of the parent if it
\* is in name_id, and of the name of an empty.
CallMakeObjectNode ==
    /\ track_ret = <<>> /\ track_err = ""
    /\ track_args.fn = "make_object_node"
    /\ \E names \in {SaneNames(
                        (IF track_args.ob.type = "EMPTY" THEN <<>> ELSE <<track_args.ob.name>>)
                        \o (IF ParentTracked(track_args.ob, track_args.name_id)
                            THEN <<track_args.ob.parent[1].name>> ELSE <<>>)
                        \o (IF track_args.ob.type = "EMPTY" THEN <<track_args.ob.name>> ELSE <<>>))} :
          /\ Outcome(ObjectNodeRaises(track_args.ob),
                     MakeObjectNode(names.mapping, track_args.ob, track_args.name_id))
          /\ name_unique' = names.unique
          /\ name_mapping' = names.mapping
    /\ UNCHANGED <<track_args, chunkVars, name_ret, returned, uvVars, saveVars, buildVars>>

\* The keyframe part of an iteration of save() over a camera or a spot
\* light: name_id[ob.name] = len(name_id), make_object_node and then
\* make_target_node.
CallViewNodes ==
    /\ track_ret = <<>> /\ track_err = ""
    /\ track_args.fn = "view_nodes"
    /\ \E names \in {SaneNames(<<track_args.ob.name>>)} :
       \E name_id \in {NewNameId(<<>>, track_args.ob.name)} :
       \E raises \in {IF ObjectNodeRaises(track_args.ob) # ""
                      THEN ObjectNodeRaises(track_args.ob)
                      ELSE TargetNodeRaises(track_args.ob.animation_data)} :
          /\ track_err' = raises
          /\ track_ret' = IF raises # "" THEN <<>>
                          ELSE <<MakeObjectNode(names.mapping, track_args.ob, name_id),
                                 MakeTargetNode(names.mapping, track_args.ob,
                                                TargetNameId(name_id, track_args.ob.name))>>
          /\ name_unique' = names.unique
          /\ name_mapping' = names.mapping
    /\ UNCHANGED <<track_args, chunkVars, name_ret, returned, uvVars, saveVars, buildVars>>

NextTrack ==
    \/ CallMakeTrackChunk \/ CallMakeTargetNode \/ CallMakeAmbientNode
    \/ CallMakeObjectNode \/ CallViewNodes

SpecTrack == InitTrack /\ [][NextTrack]_vars

-----------------------------------------------------------------------------
(* Claims about the tracks. *)

\* The track chunk of the value returned: the chunk itself, or the last
\* subchunk of a node.
TrackOf(t) == IF t.kids = <<>> THEN t ELSE t.kids[Len(t.kids)]

\* The tcb_frame values of a track: of the variables after the four of the
\* header, every third one.
FramesOf(t) ==
    [i \in 1..((Len(t.variables) - 4) \div 3) |-> t.variables[4 + 3 * (i - 1) + 1].value[1]]

\* C13: a track that no curve drives (no animation data, no action, or an
\* action without fcurves) has nkeys = 1 and one key, at frame 0, with the
\* current value of the object.
C13_UndrivenTrackHasOneKey ==
    (Len(track_ret) = 1 /\ track_args.fn = "make_track_chunk"
     /\ (~AnimationOf(track_args).present \/ ~AnimationOf(track_args).action
         \/ AnimationOf(track_args).fcurves = <<>>))
    => /\ Len(TrackOf(track_ret[1]).variables) = 7
       /\ TrackOf(track_ret[1]).variables[4] = Uint3ds(1)
       /\ TrackOf(track_ret[1]).variables[5] = Uint3ds(0)
       /\ TrackOf(track_ret[1]).variables[7]
             = CurrentValue(track_args.ID, track_args.ob.location,
                            <<track_args.ob.rotation>>, track_args.ob.scale)

\* C14: the frame numbers of a track built by the animated branch contain
\* 0, are strictly ascending and so hold no number twice.
C14_FramesStrictlyAscending ==
    (Len(track_ret) = 1 /\ AnimationOf(track_args).present /\ AnimationOf(track_args).action
     /\ AnimationOf(track_args).fcurves # <<>>)
    => /\ 0 \in Range(FramesOf(TrackOf(track_ret[1])))
       /\ \A i, j \in DOMAIN FramesOf(TrackOf(track_ret[1])) :
             i < j => FramesOf(TrackOf(track_ret[1]))[i] < FramesOf(TrackOf(track_ret[1]))[j]

\* The data_path of the channel a call builds the track of.
ChannelOf(call) ==
    IF call.fn = "make_track_chunk" THEN CHOOSE p \in TrackPaths(call.ID) : TRUE
    ELSE IF call.fn = "make_ambient_node" THEN "color"
    ELSE "location"

\* The values of the keys of a track: of the variables after the four of
\* the header, every third one.
ValuesOf(t) ==
    [i \in 1..((Len(t.variables) - 4) \div 3) |-> t.variables[4 + 3 * i]]

\* C26: when the action of the object has fcurves but not one for each of
\* the three components of the channel of a track (for a scalar channel:
\* none, or one), the builder raises nothing and every key of the track it
\* returns has a value of the class of the channel.
C26_UndrivenChannelFallsBack ==
    (/\ Sampled(AnimationOf(track_args))
     /\ CurveCount(AnimationOf(track_args).fcurves, ChannelOf(track_args)) < 3)
    => /\ track_err = ""
       /\ Len(track_ret) = 1 =>
             \A i \in DOMAIN ValuesOf(TrackOf(track_ret[1])) :
                 ValuesOf(TrackOf(track_ret[1]))[i].kind
                     = TrackOf(track_ret[1]).variables[Len(TrackOf(track_ret[1]).variables)].kind

\* C28: the nkeys field of a track equals the number of key records
\* (tcb_frame, tcb_flags, value) that follow it, also when the keyframe
\* times of the fcurve hold a time twice.
C28_NKeysCountsRecords ==
    (Len(track_ret) = 1 /\ TrackOf(track_ret[1]).variables # <<>>)
    => TrackOf(track_ret[1]).variables[4].value[1]
           = Len(FramesOf(TrackOf(track_ret[1])))

\* The track chunks of ID among the subchunks of a node.
TracksOf(node, ID) == {node.kids[i] : i \in {j \in DOMAIN node.kids : node.kids[j].ID = ID}}

\* A key value that the fcurves of the object gave at a frame of the track.
IsSample(t, v) == \E i \in DOMAIN FramesOf(t) : v.value = <<KFrames(track_args.ob.animation_data.fcurves)[i]>>

\* Every key of every track of ID of the node returned holds the value v,
\* or, if sampled, a sample of the fcurves of the object.
KeysHold(ID, v, sampled) ==
    \A t \in TracksOf(track_ret[1], ID) :
        \A i \in DOMAIN ValuesOf(t) :
            \/ ValuesOf(t)[i] = v
            \/ sampled /\ Sampled(track_args.ob.animation_data) /\ IsSample(t, ValuesOf(t)[i])

\* C23: in a node of make_object_node whose parent is in name_id, the keys
\* of the position track hold the location of the object minus that of
\* the parent and the keys of the scale track hold (1, 1, 1); in any other
\* node the keys hold the location, the rotation and the scale of the
\* object itself: their current values, or what its own fcurves give.
C23_RelativeToTrackedParent ==
    (Len(track_ret) = 1 /\ track_args.fn = "make_object_node")
    => IF ParentTracked(track_args.ob, track_args.name_id)
       THEN /\ KeysHold(POS_TRACK_TAG,
                        PrimV("point_3d", VectorSub(track_args.ob.location,
                                                    track_args.ob.parent[1].location)), FALSE)
            /\ KeysHold(SCL_TRACK_TAG, PrimV("point_3d", <<1, 1, 1>>), FALSE)
       ELSE /\ KeysHold(POS_TRACK_TAG, PrimV("point_3d", track_args.ob.location), TRUE)
            /\ KeysHold(ROT_TRACK_TAG, PrimV("point_4d", <<track_args.ob.rotation>>), TRUE)
            /\ KeysHold(SCL_TRACK_TAG, PrimV("point_3d", track_args.ob.scale), TRUE)

\* The position track of a node.
PosTrackOf(node) == CHOOSE t \in TracksOf(node, POS_TRACK_TAG) : TRUE

\* C25: the position track of the target node of a camera or spot light
\* that has an action holds the same frame numbers, in the same order, and
\* the same nkeys as the position track of the node of the camera or light.
C25_TargetKeysAsOwner ==
    (Len(track_ret) = 2 /\ track_args.ob.animation_data.action)
    => /\ FramesOf(PosTrackOf(track_ret[2])) = FramesOf(PosTrackOf(track_ret[1]))
       /\ Len(PosTrackOf(track_ret[2]).variables) = Len(PosTrackOf(track_ret[1]).variables)
       /\ PosTrackOf(track_ret[1]).variables # <<>>
             => PosTrackOf(track_ret[2]).variables[4] = PosTrackOf(track_ret[1]).variables[4]

\* Both nodes of a camera with keyframes at frames 1 and 2 are made.
C25_Witness ==
    /\ Len(track_ret) = 2
    /\ track_args.ob.type = "CAMERA"
    /\ FramesOf(PosTrackOf(track_ret[2])) = <<0, 1, 2>>
    /\ PosTrackOf(track_ret[2]).variables[4] = Uint3ds(3)

-----------------------------------------------------------------------------
(* make_material_texture_chunk applied to texture slots, and the write of *)
(* a colour.                                                             *)

MAT_DIFFUSEMAP == 41472

MAT_SPECMAP == 41476

MAT_OPACMAP == 41488

MAT_BUMPMAP == 41520

MAT_MAP_FILE == 41728

MAT_MAP_TILING == 41809

MAT_MAP_TEXBLUR == 41811

MAT_MAP_USCALE == 41812

MAT_MAP_VSCALE == 41814

MAT_MAP_UOFFSET == 41816

MAT_MAP_VOFFSET == 41818

MAT_MAP_ANG == 41820

MAP_COL1 == 41824

\* A texture slot: whether it has an image, the name of its file, its
\* extension, the identifier of the socket it feeds (socket_dst), the
\* identifiers of the sockets linked to that one (link.from_socket) and
\* the colour space of the image.
TexSlot(image, filename, extension, dst, links, colorspace) ==
    [image |-> image, filename |-> filename, extension |-> extension,
     dst |-> dst, links |-> links, colorspace |-> colorspace]

\* mapflags of add_texslot; socket is the from_socket of the last link.
MapFlags(texslot) ==
    (CASE texslot.extension = "EXTEND" -> 1
       [] texslot.extension = "MIRROR" -> 2
       [] texslot.extension = "CLIP"   -> 16
       [] OTHER                        -> 0)
    + (IF texslot.links[Len(texslot.links)] = "Alpha"
       THEN 64 + (IF texslot.dst \in {"Base Color", "Specular"}
                  THEN (IF texslot.colorspace = "Non-Color" THEN 128 ELSE 512)
                  ELSE 0)
       ELSE 0)

\* The last statement of add_texslot: the tint colour.
TintColor(texslot) ==
    IF texslot.dst \in {"Base Color", "Specular"}
    THEN <<T(MAP_COL1, <<Prim("rgb_color")>>, <<>>)>>
    ELSE <<>>

\* add_texslot(texslot): the subchunks it adds to mat_sub.
AddTexslot(nm, texslot) ==
    <<T(MAT_MAP_FILE, <<String3ds(nm[texslot.filename])>>, <<>>),
      T(MAT_MAP_TILING, <<Ushort3ds(MapFlags(texslot))>>, <<>>),
      T(MAT_MAP_TEXBLUR, <<Prim("float")>>, <<>>),
      T(MAT_MAP_USCALE, <<Prim("float")>>, <<>>),
      T(MAT_MAP_VSCALE, <<Prim("float")>>, <<>>),
      T(MAT_MAP_UOFFSET, <<Prim("float")>>, <<>>),
      T(MAT_MAP_VOFFSET, <<Prim("float")>>, <<>>),
      T(MAT_MAP_ANG, <<Prim("float")>>, <<>>)>>
    \o TintColor(texslot)

\* make_material_texture_chunk(chunk_id, texslots, pct): mat_sub in a one
\* element sequence, or <<>> for None when no slot has an image.
MakeMaterialTextureChunk(nm, chunk_id, texslots) ==
    IF \E i \in DOMAIN texslots : texslots[i].image
    THEN <<T(chunk_id, <<>>,
             MakePercentSubchunk(chunk_id).kids
             \o FlattenSeq([i \in DOMAIN texslots |->
                               IF texslots[i].image THEN AddTexslot(nm, texslots[i]) ELSE <<>>]))>>
    ELSE <<>>

\* The slots with an image, a file "M" each.
TexSlotPool ==
    { TexSlot(TRUE, MatName, extension, dst, links, colorspace) :
        extension \in {"REPEAT", "EXTEND", "MIRROR", "CLIP"},
        dst \in {"Base Color", "Specular", "Alpha", "Normal"},
        links \in {<<"Color">>, <<"Alpha">>, <<"Alpha", "Color">>, <<"Color", "Alpha">>},
        colorspace \in {"sRGB", "Non-Color"} }

\* The chunk make_material_chunk asks for, by the socket of the texture.
ChannelTag(dst) ==
    CASE dst = "Base Color" -> MAT_DIFFUSEMAP
      [] dst = "Specular"   -> MAT_SPECMAP
      [] dst = "Alpha"      -> MAT_OPACMAP
      [] OTHER              -> MAT_BUMPMAP

\* A colour channel is a multiple of 1/ColorUnit, which a float holds exactly.
ColorUnit == 8

\* _3ds_rgb_color.write: the three bytes packed, int(255 * channel) each.
RgbColorWrite(col) == [i \in 1..3 |-> (255 * col[i]) \div ColorUnit]

\* A tri_wrapper as make_faces_chunk reads it: the material index, the
\* image name or nothing for None, the vertex indices and the smoothing
\* group.
FaceTri(ma, image) == [ma |-> ma, image |-> image, vertex_index |-> <<0, 1, 2>>, group |-> 0]

\* A mesh as make_faces_chunk reads it: the material slots, each a material
\* name or NoMaterial for None, whether there is a UV layer and whether a
\* polygon is smooth.
FaceMesh(materials, uv_layers, smooth) ==
    [materials |-> materials, uv_layers |-> uv_layers, smooth |-> smooth]

\* The key (ma, img) of triangle i in the UV branch: ma is the name of
\* materials[tri.ma], or None for an empty slot or without materials.
MatKey(tris, mesh, i) ==
    <<IF mesh.materials = <<>> THEN NoMaterial ELSE mesh.materials[tris[i].ma + 1],
      tris[i].image>>

\* The triangles that make a new entry of unique_mats, in order.
NewKeys(tris, mesh) ==
    SelectSeq([i \in DOMAIN tris |-> i],
              LAMBDA i : \A j \in 1..(i - 1) : MatKey(tris, mesh, j) # MatKey(tris, mesh, i))

\* unique_mats.values(): per key, in the order of insertion, name_str and
\* the indices of the triangles of the key.
UniqueMats(tris, mesh) ==
    [k \in DOMAIN NewKeys(tris, mesh) |->
        [name |-> NameStr(MatKey(tris, mesh, NewKeys(tris, mesh)[k])[1]),
         faces |-> SelectSeq([i \in DOMAIN tris |-> i - 1],
                             LAMBDA f : MatKey(tris, mesh, f + 1)
                                        = MatKey(tris, mesh, NewKeys(tris, mesh)[k]))]]

\* obj_material_names: the names of the slots that hold a material.
ObjMaterialNames(mesh) == SelectSeq(mesh.materials, LAMBDA m : m # NoMaterial)

\* obj_material_names and obj_material_faces of the branch without a UV
\* layer: triangle i is added to obj_material_faces[tri.ma] if tri.ma is
\* less than n_materials.
SlotMats(tris, mesh) ==
    [k \in DOMAIN ObjMaterialNames(mesh) |->
        [name |-> ObjMaterialNames(mesh)[k],
         faces |-> SelectSeq([i \in DOMAIN tris |-> i - 1],
                             LAMBDA f : tris[f + 1].ma = k - 1)]]

\* The material names and face lists of the OBJECT_MATERIAL chunks.
FaceMaterials(tris, mesh) ==
    IF mesh.uv_layers THEN UniqueMats(tris, mesh) ELSE SlotMats(tris, mesh)

\* make_faces_chunk(tri_list, mesh, materialDict), from the tri_wrappers.
FacesChunkOf(nm, tris, mesh) ==
    T(OBJECT_FACES,
      <<ArrayOf("face", [i \in DOMAIN tris |-> tris[i].vertex_index])>>,
      [k \in DOMAIN FaceMaterials(tris, mesh) |->
          T(OBJECT_MATERIAL,
            <<String3ds(nm[FaceMaterials(tris, mesh)[k].name]),
              ArrayOf("ushort", FaceMaterials(tris, mesh)[k].faces)>>, <<>>)]
      \o (IF mesh.smooth
          THEN <<T(OBJECT_SMOOTH, [i \in DOMAIN tris |-> Uint3ds(tris[i].group)], <<>>)>>
          ELSE <<>>))

\* "N"
OtherMatName == <<78>>

\* "I"
ImageName == <<73>>

\* Triangles in a list that make_faces_chunk is called with.
MaxFaceTris == 2

\* The meshes and triangle lists make_faces_chunk is called with: no, one
\* and two material slots, the first or the second of two empty; every
\* triangle has the index of a slot, or 0 without slots, and an image or
\* none.
FacesCalls ==
    { [fn |-> "make_faces_chunk", mesh |-> FaceMesh(materials, uv, smooth), tri_list |-> tris] :
        materials \in {<<>>, <<MatName>>, <<MatName, OtherMatName>>,
                       <<NoMaterial, MatName>>, <<MatName, NoMaterial>>},
        uv \in BOOLEAN, smooth \in BOOLEAN,
        tris \in UNION {[1..n -> {FaceTri(ma, img) : ma \in 0..1, img \in {<<>>, ImageName}}] :
                         n \in 0..MaxFaceTris} }

\* The calls: the list of one texture that make_material_chunk passes, the
\* same with a slot without image before it, and a list of such a slot
\* alone; the write of a colour with channels in the unit interval; and
\* make_faces_chunk with the triangles whose index is one of a slot.
BuildCalls ==
    { [fn |-> "make_material_texture_chunk", chunk_id |-> ChannelTag(slot.dst),
       texslots |-> before \o <<slot>>] :
        slot \in TexSlotPool,
        before \in {<<>>, <<TexSlot(FALSE, <<>>, "REPEAT", "Base Color", <<"Color">>, "sRGB")>>} }
    \cup { [fn |-> "make_material_texture_chunk", chunk_id |-> MAT_DIFFUSEMAP,
            texslots |-> <<TexSlot(FALSE, <<>>, "REPEAT", "Base Color", <<"Color">>, "sRGB")>>] }
    \cup { [fn |-> "_3ds_rgb_color.write", col |-> col] : col \in [1..3 -> 0..ColorUnit] }
    \cup { call \in FacesCalls :
              \A i \in DOMAIN call.tri_list :
                  call.tri_list[i].ma < IF call.mesh.materials = <<>> THEN 1
                                        ELSE Len(call.mesh.materials) }

InitBuild ==
    /\ ChunkIdle /\ NameIdle /\ UvIdle /\ SaveIdle /\ TrackIdle
    /\ build_args \in BuildCalls
    /\ build_ret = <<>>

CallMakeMaterialTextureChunk ==
    /\ build_ret = <<>>
    /\ build_args.fn = "make_material_texture_chunk"
    /\ \E names \in {SaneNames(SelectSeq([i \in DOMAIN build_args.texslots |->
                                             build_args.texslots[i].filename],
                                         LAMBDA f : f # <<>>))} :
          /\ build_ret' = <<MakeMaterialTextureChunk(names.mapping, build_args.chunk_id,
                                                     build_args.texslots)>>
          /\ name_unique' = names.unique
          /\ name_mapping' = names.mapping
    /\ UNCHANGED <<build_args, chunkVars, name_ret, returned, uvVars, saveVars, trackVars>>

CallRgbColorWrite ==
    /\ build_ret = <<>>
    /\ build_args.fn = "_3ds_rgb_color.write"
    /\ build_ret' = <<RgbColorWrite(build_args.col)>>
    /\ UNCHANGED <<build_args, chunkVars, nameVars, uvVars, saveVars, trackVars>>

\* make_faces_chunk and the sane_name calls it makes: of name_str for each
\* new key with a UV layer, else of the name of each material of the mesh.
CallMakeFacesChunk ==
    /\ build_ret = <<>>
    /\ build_args.fn = "make_faces_chunk"
    /\ \E names \in {SaneNames([k \in DOMAIN FaceMaterials(build_args.tri_list, build_args.mesh) |->
                                    FaceMaterials(build_args.tri_list, build_args.mesh)[k].name])} :
          /\ build_ret' = <<FacesChunkOf(names.mapping, build_args.tri_list, build_args.mesh)>>
          /\ name_unique' = names.unique
          /\ name_mapping' = names.mapping
    /\ UNCHANGED <<build_args, chunkVars, name_ret, returned, uvVars, saveVars, trackVars>>

NextBuild == CallMakeMaterialTextureChunk \/ CallRgbColorWrite \/ CallMakeFacesChunk

SpecBuild == InitBuild /\ [][NextBuild]_vars

-----------------------------------------------------------------------------
(* Claims about the builders. *)

\* The tint colour subchunks of the texture chunk returned.
TintChunks == {k \in DOMAIN build_ret[1][1].kids : build_ret[1][1].kids[k].ID = MAP_COL1}

\* The slots of the call that have an image.
ImageSlots == SelectSeq(build_args.texslots, LAMBDA slot : slot.image)

\* C21: the texture chunk has a MAP_COL1 subchunk exactly if a slot with an
\* image feeds Base Color or Specular and is used as an alpha source (the
\* socket linked is the Alpha output of the image).
C21_TintOnlyForAlphaSource ==
    (/\ Len(build_ret) = 1
     /\ build_args.fn = "make_material_texture_chunk"
     /\ Len(build_ret[1]) = 1) =>
        (TintChunks # {} <=>
            \E i \in DOMAIN ImageSlots :
                /\ ImageSlots[i].dst \in {"Base Color", "Specular"}
                /\ ImageSlots[i].links[Len(ImageSlots[i].links)] = "Alpha")


\* round(n / d) as Python rounds: to the nearest integer, a tie to the even one.
RoundDiv(n, d) ==
    IF 2 * (n % d) < d THEN n \div d
    ELSE IF 2 * (n % d) > d THEN (n \div d) + 1
    ELSE IF (n \div d) % 2 = 0 THEN n \div d ELSE (n \div d) + 1

\* C22: each of the three bytes written for a colour is round(255 * c) of
\* its channel c.
C22_BytesAreRounded ==
    (Len(build_ret) = 1 /\ build_args.fn = "_3ds_rgb_color.write") =>
        \A i \in 1..3 : build_ret[1][i] = RoundDiv(255 * build_args.col[i], ColorUnit)

\* The OBJECT_MATERIAL subchunks of the faces chunk returned whose face
\* list holds triangle i.
ListsOf(i) ==
    {k \in DOMAIN build_ret[1].kids :
        /\ build_ret[1].kids[k].ID = OBJECT_MATERIAL
        /\ i \in Range(build_ret[1].kids[k].variables[2].value)}

\* The material in the slot of triangle i of the call: its name, or
\* NoMaterial for an empty slot or a mesh without slots.
SlotOf(i) ==
    IF build_args.mesh.materials = <<>> THEN NoMaterial
    ELSE build_args.mesh.materials[build_args.tri_list[i + 1].ma + 1]

\* C29: every triangle index is in the face list of at most one
\* OBJECT_MATERIAL chunk, and a chunk that lists it has the name of the
\* material in the slot of the triangle ("None" for an empty slot), with
\* and without a UV layer and with empty slots among the materials.
C29_FacesUnderOwnMaterial ==
    (Len(build_ret) = 1 /\ build_args.fn = "make_faces_chunk") =>
        \A i \in 0..(Len(build_args.tri_list) - 1) :
            /\ Cardinality(ListsOf(i)) <= 1
            /\ \A k \in ListsOf(i) :
                  /\ NameStr(SlotOf(i)) \in DOMAIN name_mapping
                  /\ build_ret[1].kids[k].variables[1]
                        = String3ds(name_mapping[NameStr(SlotOf(i))])

=========================================================================
